---- MODULE Spec2Model ----
(***************************************************************************)
(* A model of the RSP client of src/bin/spx.py (class SPXConnection).      *)
(*                                                                         *)
(* Spec     the session layer: the background reader thread reading the    *)
(*          transport byte by byte, the client thread sending packets and  *)
(*          waiting on the response queue, close(), and the device at the  *)
(*          other end of the transport.                                    *)
(* SpecOps  the high-level operations ls, get and put, each a sequence of  *)
(*          packet/response exchanges (_send_packet_with_response) whose   *)
(*          outcome is a response payload or an exception.                 *)
(*                                                                         *)
(* Bytes and characters are their ASCII codes; a payload, a packet string  *)
(* and a queue item are sequences of codes.  The model's alphabet is       *)
(* ASCII, on which bytes.decode('ascii', errors='replace') is the          *)
(* identity.                                                               *)
(***************************************************************************)
EXTENDS Integers, Sequences, FiniteSets, TLC

(***************************************************************************)
(* Bounds of the model.                                                    *)
(***************************************************************************)
MaxOps == 2       \* operations the client issues on the connection
MaxLog == 2       \* O-packet chunks the device streams
MaxFaults == 1    \* irregular events of a run: a data packet the device
                  \* answers with NAK or not at all, a frame it sends
                  \* damaged, an answer that comes after the wait for it
                  \* has timed out, an exception raised by the sink

MaxCalls == 2     \* calls of ls, get and put on the connection
MaxEntries == 2   \* entries of a directory
MaxFile == 2      \* bytes of a file

(***************************************************************************)
(* Characters.                                                             *)
(***************************************************************************)
cPlus == 43       \* '+'
cMinus == 45      \* '-'
cDollar == 36     \* '$'
cHash == 35       \* '#'
cComma == 44      \* ','
cO == 79          \* 'O'
cE == 69          \* 'E'
cF == 70          \* 'F'

ACK == <<cPlus>>
NAK == <<cMinus>>

(***************************************************************************)
(* Hexadecimal, as binascii.hexlify / unhexlify and int(s, 16) compute it. *)
(***************************************************************************)
HexDigitVal(c) ==
    IF c \in 48..57 THEN c - 48
    ELSE IF c \in 97..102 THEN c - 87
    ELSE IF c \in 65..70 THEN c - 55
    ELSE -1

IsHexDigit(c) == HexDigitVal(c) >= 0

HexChar(v) == IF v < 10 THEN 48 + v ELSE 87 + v

RECURSIVE HexDigits(_)
HexDigits(n) ==
    IF n < 16 THEN <<HexChar(n)>> ELSE HexDigits(n \div 16) \o <<HexChar(n % 16)>>

\* f"{n:x}": lowercase hex without prefix, '-' for a negative number
FormatHex(n) == IF n < 0 THEN <<cMinus>> \o HexDigits(-n) ELSE HexDigits(n)

\* f"{n:02x}" for 0 <= n < 256
FormatHex2(n) == <<HexChar(n \div 16), HexChar(n % 16)>>

RECURSIVE HexMagnitude(_)
HexMagnitude(s) ==
    IF s = <<>> THEN 0
    ELSE 16 * HexMagnitude(SubSeq(s, 1, Len(s) - 1)) + HexDigitVal(s[Len(s)])

AllHex(s) == \A i \in 1..Len(s) : IsHexDigit(s[i])

\* int(s, 16) on the model's alphabet: an optional sign, then one or more
\* hex digits of either case; anything else raises ValueError.
ParseHexInt(s) ==
    LET signed == s # <<>> /\ s[1] \in {cPlus, cMinus}
        digits == IF signed THEN Tail(s) ELSE s
    IN  IF digits = <<>> \/ ~AllHex(digits)
        THEN [ok |-> FALSE, val |-> 0]
        ELSE [ok |-> TRUE,
              val |-> IF signed /\ s[1] = cMinus
                      THEN 0 - HexMagnitude(digits) ELSE HexMagnitude(digits)]

RECURSIVE Hexlify(_)
Hexlify(bs) ==
    IF bs = <<>> THEN <<>>
    ELSE <<HexChar(Head(bs) \div 16), HexChar(Head(bs) % 16)>> \o Hexlify(Tail(bs))

RECURSIVE UnhexlifyEven(_)
UnhexlifyEven(s) ==
    IF s = <<>> THEN <<>>
    ELSE <<16 * HexDigitVal(s[1]) + HexDigitVal(s[2])>>
         \o UnhexlifyEven(SubSeq(s, 3, Len(s)))

\* binascii.unhexlify: raises on an odd length or a non-hex digit
Unhexlify(s) ==
    IF Len(s) % 2 # 0 \/ ~AllHex(s)
    THEN [ok |-> FALSE, val |-> <<>>]
    ELSE [ok |-> TRUE, val |-> UnhexlifyEven(s)]

StartsWith(s, p) == Len(s) >= Len(p) /\ SubSeq(s, 1, Len(p)) = p

RECURSIVE SumSeq(_)
SumSeq(s) == IF s = <<>> THEN 0 ELSE Head(s) + SumSeq(Tail(s))

\* _calculate_checksum
CalculateChecksum(data) == SumSeq(data) % 256


(***************************************************************************)
(* State.                                                                  *)
(***************************************************************************)
VARIABLES
    \* ---- the transport and the device behind it (session layer)
    transport,      \* "open" | "closed": self.sock / self.ser
    wire_in,        \* bytes the device has sent and the host has not read
    dev_in,         \* what the host wrote, not yet handled by the device
    dev_last,       \* <<p>>: the payload the device sent last; <<>>: none
    dev_bud,        \* what the device may still do (bounds of the model)
    dev_osent,      \* O-packet chunks in the order the device sent them
    dev_rsent,      \* the response payloads the device has sent
    \* ---- SPXConnection
    rq,             \* self._response_queue
    reader_stop,    \* self._reader_stop (threading.Event)
    closing,        \* close(): "no" | "called" | "returned"
    sink,           \* chunks handed to the O-packet sink, in call order
    \* ---- the reader thread
    rpc,            \* position in _reader_thread_func/_read_packet_from_stream
    rdata,          \* data (bytearray) of the frame being read
    rck,            \* checksum_hex
    rpkt,           \* packet returned by _read_packet_from_stream
    \* ---- the client thread
    cpc,            \* position in the operation or in close()
    cop,            \* the operation in progress
    attempt,        \* loop variable of _send_packet
    nops,           \* operations issued so far
    \* ---- observation of the run (history)
    hist

sessVars == <<transport, wire_in, dev_in, dev_last, dev_bud, dev_osent,
              dev_rsent, rq, reader_stop, closing, sink, rpc, rdata, rck, rpkt,
              cpc, cop, attempt, nops, hist>>

VARIABLES
    \* ---- the high-level operations
    max_packet_size,    \* self.max_packet_size
    call,               \* the call of ls, get or put in progress: its
                        \* position and its local variables
    local_file,         \* the bytes of the local file that put sends
    remote,             \* the device: the directory and the file of the
                        \* call, and what it has answered
    olog,               \* the requests of the call, in order
    ncalls              \* calls made so far

opsVars == <<max_packet_size, call, local_file, remote, olog, ncalls>>

VARIABLES
    \* ---- the command-line layer
    cli                 \* the command function in progress: its position,
                        \* its locals, the connection it holds and what the
                        \* process has printed

cmdVars == <<cli>>

VARIABLES
    \* ---- the host and the connections made on it (connection layer)
    host,           \* platform, environment, device lock and lock file
    conns           \* the SPXConnection objects, by number

connVars == <<host, conns>>

VARIABLES
    \* ---- a call of a function of SPXConnection that keeps no state
    fn

fnVars == <<fn>>

VARIABLES
    \* ---- the reader on a stream that arrives in pieces
    rd

rdVars == <<rd>>

(***************************************************************************)
(* The device: the other end of the transport.  It answers every data      *)
(* packet with '+' and a response frame, with '-', or not at all; it       *)
(* streams O-packets; it sends the last frame again when the host answers  *)
(* '-'.  It takes no action on the host's '+', which is not kept, and      *)
(* none once the host has closed the transport.                            *)
(***************************************************************************)
\* '$' payload '#' hh, hh the two-hex-digit sum of the payload modulo 256
Frame(p) == <<cDollar>> \o p \o <<cHash>> \o FormatHex2(CalculateChecksum(p))

\* the frame with one payload byte changed on the way
DamagedFrame(p) ==
    <<cDollar>> \o <<p[1] + 1>> \o Tail(p) \o <<cHash>>
    \o FormatHex2(CalculateChecksum(p))

\* the frame with a checksum field that is not hexadecimal ("zz")
GarbledFrame(p) == <<cDollar>> \o p \o <<cHash, 122, 122>>

\* the k-th chunk of console output: 'O' and the hex of one letter
OPacket(k) == <<cO>> \o Hexlify(<<64 + k>>)

\* the response to the packet of operation op: "OK" to a qRcmd that is not
\* waited for, "F<n>" to the others
NoOp == [n |-> 0, wait |-> FALSE]

ResponseTo(op) == IF op.wait THEN <<cF>> \o FormatHex(op.n) ELSE <<cO, 75>>

\* the bytes that reach the host when the device sends payload p: the
\* frame, or (dmg) a damaged or garbled copy of it
Emit(p, dmg) ==
    IF dmg = "no" THEN Frame(p)
    ELSE IF dmg = "damaged" THEN DamagedFrame(p) ELSE GarbledFrame(p)

Damages(b) == IF b.faults > 0 THEN {"no", "damaged", "garbled"} ELSE {"no"}

\* the device notes the payload it sends
DevNoteSent(p) ==
    IF p[1] = cO /\ Len(p) > 2
    THEN /\ dev_osent' = Append(dev_osent, UnhexlifyEven(Tail(p)))
         /\ UNCHANGED dev_rsent
    ELSE /\ dev_rsent' = dev_rsent \cup {p}
         /\ UNCHANGED dev_osent

\* the device sends the bytes pre and then payload p, with b left to do
DevSend(pre, p, b) ==
    \E dmg \in Damages(b) :
        /\ wire_in' = wire_in \o pre \o Emit(p, dmg)
        /\ dev_bud' = IF dmg = "no" THEN b ELSE [b EXCEPT !.faults = @ - 1]
        /\ dev_last' = <<p>>
        /\ DevNoteSent(p)

\* the device receives a data packet: '+' and the response, '-', or nothing
DevRecvData ==
    /\ transport = "open"
    /\ dev_in # <<>>
    /\ Head(dev_in).k = "data"
    /\ dev_in' = Tail(dev_in)
    /\ \/ DevSend(ACK, ResponseTo(Head(dev_in).op), dev_bud)
       \/ /\ dev_bud.faults > 0
          /\ wire_in' = wire_in \o NAK
          /\ dev_bud' = [dev_bud EXCEPT !.faults = @ - 1]
          /\ UNCHANGED <<dev_last, dev_osent, dev_rsent>>
       \/ /\ dev_bud.faults > 0
          /\ dev_bud' = [dev_bud EXCEPT !.faults = @ - 1]
          /\ UNCHANGED <<wire_in, dev_last, dev_osent, dev_rsent>>
    /\ UNCHANGED <<transport, rq, reader_stop, closing, sink, rpc, rdata, rck,
                   rpkt, cpc, cop, attempt, nops, hist>>
    /\ UNCHANGED <<opsVars, cmdVars, connVars, fnVars, rdVars>>

\* the device receives the host's '-': the last frame is sent again
DevRecvNak ==
    /\ transport = "open"
    /\ dev_in # <<>>
    /\ Head(dev_in).k = "-"
    /\ dev_in' = Tail(dev_in)
    /\ IF dev_last = <<>>
       THEN UNCHANGED <<wire_in, dev_bud, dev_last, dev_osent, dev_rsent>>
       ELSE DevSend(<<>>, dev_last[1], dev_bud)
    /\ UNCHANGED <<transport, rq, reader_stop, closing, sink, rpc, rdata, rck,
                   rpkt, cpc, cop, attempt, nops, hist>>
    /\ UNCHANGED <<opsVars, cmdVars, connVars, fnVars, rdVars>>

\* the device has console output to stream
DevLog ==
    /\ transport = "open"
    /\ dev_bud.log > 0
    /\ DevSend(<<>>, OPacket(MaxLog + 1 - dev_bud.log),
               [dev_bud EXCEPT !.log = @ - 1])
    /\ UNCHANGED <<transport, dev_in, rq, reader_stop, closing, sink, rpc,
                   rdata, rck, rpkt, cpc, cop, attempt, nops, hist>>
    /\ UNCHANGED <<opsVars, cmdVars, connVars, fnVars, rdVars>>

(***************************************************************************)
(* The reader thread.  One action per transport call; the thread may be    *)
(* preempted between any two of them.  A stop check reads the stop event   *)
(* and nothing else, so it is taken together with the read that follows    *)
(* it; a reader that has passed the check when close() sets the event is   *)
(* at a position "..._rd".                                                 *)
(*   loop      the while condition of _reader_thread_func, the stop check  *)
(*             that opens _read_packet_from_stream, and the first read     *)
(*   first     the stop check and the read of a further first character    *)
(*   first_rd  self._read(1) of a first character, the check passed        *)
(*   data      the stop check and the read of a payload byte               *)
(*   data_rd   self._read(1) of a payload byte, the check passed           *)
(*   ck        self._read(2): the checksum                                 *)
(*   verify    the comparison and the write of '+' or '-'                  *)
(*   deliver   the classification of the packet returned                   *)
(*   exited    the thread function has returned                            *)
(***************************************************************************)
\* except clauses that leave the loop on every exception
ReaderOnException_AlwaysBreaks(stop) == "exited"

\* the two except clauses of _reader_thread_func: leave the loop when the
\* stop event is set, go on reading otherwise
ReaderOnException(stop) == IF stop THEN "exited" ELSE "loop"

\* where a failed self._read leaves the reader: _read_packet_from_stream
\* returns None (an OSError or SerialException while stopping), or the error
\* reaches the except clauses of the thread function (an RSPIOError from
\* _read, or an AttributeError once close() has set self.sock to None)
ReadErrorNext(stop) == {"loop", ReaderOnException(stop)}

\* the reader is at the self._read(1) of a first character
AtFirstRead == (rpc \in {"loop", "first"} /\ ~reader_stop) \/ rpc = "first_rd"

\* the reader is at the self._read(1) of a payload byte
AtDataRead == (rpc = "data" /\ ~reader_stop) \/ rpc = "data_rd"

\* the positions a reader at position pos can be in when the stop event is
\* set: before the stop check, or past it
PastCheck(pos) ==
    IF pos \in {"loop", "first"} THEN {pos, "first_rd"}
    ELSE IF pos = "data" THEN {pos, "data_rd"}
    ELSE {pos}

\* the reader takes an exception: the observation records it until the
\* next byte is read
NoteException(h) == [h EXCEPT !.rexc = TRUE]

\* a transport call made once close() has returned
NoteAttempt(h) == [h EXCEPT !.try_after = @ \/ (closing = "returned")]

\* bytes moved on the transport once close() has returned
NoteTransfer(h) == [h EXCEPT !.xfer_after = @ \/ (closing = "returned")]

\* the observation of the frame read last: whether the reader has read it
\* to the end, what it wrote in answer (0: nothing), whether the checksum
\* was right
NoFrame == [seen |-> FALSE, wrote |-> 0, match |-> FALSE]

\* a stop check that finds the event set: the thread function returns, or
\* _read_packet_from_stream returns None
R_Stop ==
    /\ rpc \in {"loop", "first", "data"}
    /\ reader_stop
    /\ rpc' = IF rpc = "loop" THEN "exited" ELSE "loop"
    /\ rdata' = <<>>
    /\ UNCHANGED <<transport, wire_in, dev_in, dev_last, dev_bud, dev_osent,
                   dev_rsent, rq, reader_stop, closing, sink, rck, rpkt, cpc,
                   cop, attempt, nops, hist>>
    /\ UNCHANGED <<opsVars, cmdVars, connVars, fnVars, rdVars>>

\* a self._read on a transport that close() has closed
R_ReadClosed ==
    /\ AtFirstRead \/ AtDataRead \/ rpc = "ck"
    /\ transport = "closed"
    /\ rpc' \in ReadErrorNext(reader_stop)
    /\ rdata' = <<>>
    /\ hist' = NoteAttempt(NoteException(hist))
    /\ UNCHANGED <<transport, wire_in, dev_in, dev_last, dev_bud, dev_osent,
                   dev_rsent, rq, reader_stop, closing, sink, rck, rpkt, cpc,
                   cop, attempt, nops>>
    /\ UNCHANGED <<opsVars, cmdVars, connVars, fnVars, rdVars>>

\* a self._read that returns b'' (the read timeout): return None
R_ReadTimeout ==
    /\ AtFirstRead \/ AtDataRead \/ rpc = "ck"
    /\ transport = "open"
    /\ wire_in = <<>>
    /\ rpc' = "loop"
    /\ rdata' = <<>>
    /\ UNCHANGED <<transport, wire_in, dev_in, dev_last, dev_bud, dev_osent,
                   dev_rsent, rq, reader_stop, closing, sink, rck, rpkt, cpc,
                   cop, attempt, nops, hist>>
    /\ UNCHANGED <<opsVars, cmdVars, connVars, fnVars, rdVars>>

R_FirstRead ==
    /\ AtFirstRead
    /\ transport = "open"
    /\ wire_in # <<>>
    /\ wire_in' = Tail(wire_in)
    /\ hist' = [NoteTransfer(hist) EXCEPT !.frame = NoFrame, !.rexc = FALSE]
    /\ IF Head(wire_in) \in {cPlus, cMinus}
       THEN rpc' = "deliver" /\ rpkt' = <<Head(wire_in)>>
       ELSE IF Head(wire_in) = cDollar
            THEN rpc' = "data" /\ UNCHANGED rpkt
            ELSE rpc' = "first" /\ UNCHANGED rpkt
    /\ UNCHANGED <<transport, dev_in, dev_last, dev_bud, dev_osent, dev_rsent,
                   rq, reader_stop, closing, sink, rdata, rck, cpc, cop,
                   attempt, nops>>
    /\ UNCHANGED <<opsVars, cmdVars, connVars, fnVars, rdVars>>

\* the rest of a frame, payload, '#' and two checksum characters, is there
\* to read: k is the position of '#' in w
RECURSIVE HashAt(_, _)
HashAt(w, i) ==
    IF i > Len(w) THEN 0 ELSE IF w[i] = cHash THEN i ELSE HashAt(w, i + 1)

FrameReady ==
    /\ rpc = "data"
    /\ ~reader_stop
    /\ cpc # "drain"
    /\ transport = "open"
    /\ HashAt(wire_in, 1) > 0
    /\ Len(wire_in) >= HashAt(wire_in, 1) + 2

\* the reads of the payload and of the checksum of a frame that is all
\* there, in one step: the steps between two of these reads change nothing
\* but the reader's position, and no step of the device or of the client
\* other than the drain and close() depends on it
R_FrameRead ==
    /\ FrameReady
    /\ LET k == HashAt(wire_in, 1) IN
       /\ rdata' = rdata \o SubSeq(wire_in, 1, k - 1)
       /\ rck' = SubSeq(wire_in, k + 1, k + 2)
       /\ wire_in' = SubSeq(wire_in, k + 3, Len(wire_in))
    /\ rpc' = "verify"
    /\ hist' = NoteTransfer(hist)
    /\ UNCHANGED <<transport, dev_in, dev_last, dev_bud, dev_osent, dev_rsent,
                   rq, reader_stop, closing, sink, rpkt, cpc, cop, attempt,
                   nops>>
    /\ UNCHANGED <<opsVars, cmdVars, connVars, fnVars, rdVars>>

R_DataRead ==
    /\ AtDataRead
    /\ ~FrameReady
    /\ transport = "open"
    /\ wire_in # <<>>
    /\ wire_in' = Tail(wire_in)
    /\ hist' = NoteTransfer(hist)
    /\ IF Head(wire_in) = cHash
       THEN rpc' = "ck" /\ UNCHANGED rdata
       ELSE rpc' = "data" /\ rdata' = Append(rdata, Head(wire_in))
    /\ UNCHANGED <<transport, dev_in, dev_last, dev_bud, dev_osent, dev_rsent,
                   rq, reader_stop, closing, sink, rck, rpkt, cpc, cop,
                   attempt, nops>>
    /\ UNCHANGED <<opsVars, cmdVars, connVars, fnVars, rdVars>>

\* self._read(2): two bytes, or the one byte there is (an incomplete
\* checksum: return None)
R_Cksum ==
    /\ rpc = "ck"
    /\ transport = "open"
    /\ wire_in # <<>>
    /\ hist' = NoteTransfer(hist)
    /\ IF Len(wire_in) >= 2
       THEN /\ rck' = SubSeq(wire_in, 1, 2)
            /\ wire_in' = SubSeq(wire_in, 3, Len(wire_in))
            /\ rpc' = "verify"
            /\ UNCHANGED rdata
       ELSE /\ wire_in' = <<>>
            /\ rpc' = "loop"
            /\ rdata' = <<>>
            /\ UNCHANGED rck
    /\ UNCHANGED <<transport, dev_in, dev_last, dev_bud, dev_osent, dev_rsent,
                   rq, reader_stop, closing, sink, rpkt, cpc, cop, attempt,
                   nops>>
    /\ UNCHANGED <<opsVars, cmdVars, connVars, fnVars, rdVars>>

\* what the reader answers to a frame: '+' when the checksum received
\* equals the checksum computed, '-' otherwise
ReaderVerdict(data, checksum_hex) ==
    IF ParseHexInt(checksum_hex).val = CalculateChecksum(data)
    THEN cPlus ELSE cMinus

\* whether the checksum field is the sum of the payload modulo 256
ChecksumCorrect(data, checksum_hex) ==
    /\ Len(checksum_hex) = 2
    /\ AllHex(checksum_hex)
    /\ HexMagnitude(checksum_hex) = SumSeq(data) % 256

\* where the verdict written leaves the reader: the packet is returned
\* after '+', None after '-'
AfterVerdict(v) == IF v = cPlus THEN "deliver" ELSE "loop"

R_Verify ==
    /\ rpc = "verify"
    /\ rdata' = <<>>
    /\ rck' = <<>>
    /\ IF ~ParseHexInt(rck).ok
       THEN \* int() raises ValueError
            /\ rpc' = ReaderOnException(reader_stop)
            /\ hist' = [NoteException(hist) EXCEPT
                          !.frame = [seen |-> TRUE, wrote |-> 0,
                                     match |-> ChecksumCorrect(rdata, rck)]]
            /\ UNCHANGED <<dev_in, rpkt>>
       ELSE IF transport = "closed"
       THEN \* self._write raises
            /\ rpc' = ReaderOnException(reader_stop)
            /\ hist' = NoteAttempt(NoteException(hist))
            /\ UNCHANGED <<dev_in, rpkt>>
       ELSE LET v == ReaderVerdict(rdata, rck) IN
            /\ dev_in' = IF v = cPlus THEN dev_in
                         ELSE Append(dev_in, [k |-> "-", op |-> NoOp])
            /\ hist' = [NoteTransfer(hist) EXCEPT
                          !.frame = [seen |-> TRUE, wrote |-> v,
                                     match |-> ChecksumCorrect(rdata, rck)]]
            /\ rpc' = AfterVerdict(v)
            /\ IF AfterVerdict(v) = "deliver"
               THEN rpkt' = rdata ELSE UNCHANGED rpkt
    /\ UNCHANGED <<transport, wire_in, dev_last, dev_bud, dev_osent,
                   dev_rsent, rq, reader_stop, closing, sink, cpc, cop,
                   attempt, nops>>
    /\ UNCHANGED <<opsVars, cmdVars, connVars, fnVars, rdVars>>

\* a test for an O-packet that looks at the first character only
IsOPacket_AnyLength(packet) == packet # <<>> /\ packet[1] = cO

\* the test of _reader_thread_func for an O-packet
IsOPacket(packet) == Len(packet) > 2 /\ packet[1] = cO

\* _decode_o_packet: the text of the chunk, "" when it does not decode
DecodeOPacket(packet) ==
    IF packet = <<>> \/ packet[1] # cO THEN <<>>
    ELSE IF Unhexlify(Tail(packet)).ok THEN Unhexlify(Tail(packet)).val
    ELSE <<>>

R_Deliver ==
    /\ rpc = "deliver"
    /\ rpkt' = <<>>
    /\ LET \* the payload of a frame is passed on: the observation records
           \* one that was not answered '+' or whose checksum was wrong
           h == IF hist.frame = NoFrame THEN hist
                ELSE [hist EXCEPT
                        !.badenq = @ \/ hist.frame.wrote # cPlus
                                     \/ ~hist.frame.match]
       IN
       IF IsOPacket(rpkt)
       THEN /\ UNCHANGED rq
            /\ IF DecodeOPacket(rpkt) # <<>>
               THEN /\ sink' = Append(sink, DecodeOPacket(rpkt))
                    \* the sink returns, or raises into the except clause
                    /\ \/ /\ rpc' = "loop"
                          /\ hist' = h
                          /\ UNCHANGED dev_bud
                       \/ /\ dev_bud.faults > 0
                          /\ dev_bud' = [dev_bud EXCEPT !.faults = @ - 1]
                          /\ rpc' = ReaderOnException(reader_stop)
                          /\ hist' = NoteException(h)
               ELSE /\ rpc' = "loop"
                    /\ hist' = h
                    /\ UNCHANGED <<sink, dev_bud>>
       ELSE /\ rq' = Append(rq, rpkt)
            /\ rpc' = "loop"
            /\ hist' = h
            /\ UNCHANGED <<sink, dev_bud>>
    /\ UNCHANGED <<transport, wire_in, dev_in, dev_last, dev_osent,
                   dev_rsent, reader_stop, closing, rdata, rck, cpc, cop,
                   attempt, nops>>
    /\ UNCHANGED <<opsVars, cmdVars, connVars, fnVars, rdVars>>

(***************************************************************************)
(* The client thread: operations and close().                              *)
(*   idle      between two calls                                           *)
(*   write     self._write(packet_bytes) of _send_packet                   *)
(*   ackwait   self._read_ack_nak()                                        *)
(*   drain     self._drain_input() before a retry                          *)
(*   resp      self._read_response()                                       *)
(*   c_join    close(): the stop event is set, joining the reader          *)
(*   c_shut    close(): closing the transport, releasing the lock          *)
(***************************************************************************)
MaxRetries == 3

\* the observation of an operation that has not begun
FreshOp == [acked |-> FALSE, resp |-> FALSE]

\* the observation of a transmission: calls of _read_ack_nak after it, queue
\* items they took, Ack/Nak items the client took from the queue
FreshTx == [waits |-> 0, taken |-> 0, acks |-> 0]

NoTx == [waits |-> -1, taken |-> -1, acks |-> -1]

\* the operation returns ("ok") or raises ("failed")
EndOp(h, outcome) ==
    [h EXCEPT !.prev = [outcome |-> outcome, acked |-> h.cur.acked,
                        resp |-> h.cur.resp, wait |-> cop.wait],
              !.cur = FreshOp]

C_Begin ==
    /\ cpc = "idle"
    /\ nops < MaxOps
    /\ nops' = nops + 1
    /\ \E w \in BOOLEAN : cop' = [n |-> nops + 1, wait |-> w]
    /\ cpc' = "write"
    /\ hist' = [hist EXCEPT !.lastret = <<>>]
    /\ UNCHANGED <<transport, wire_in, dev_in, dev_last, dev_bud, dev_osent,
                   dev_rsent, rq, reader_stop, closing, sink, rpc, rdata, rck,
                   rpkt, attempt>>
    /\ UNCHANGED <<opsVars, cmdVars, connVars, fnVars, rdVars>>

C_Write ==
    /\ cpc = "write"
    /\ IF transport = "closed"
       THEN \* self._write raises, outside the try of _send_packet
            /\ hist' = NoteAttempt(EndOp(hist, "failed"))
            /\ cpc' = "idle"
            /\ attempt' = 0
            /\ UNCHANGED dev_in
       ELSE /\ dev_in' = Append(dev_in, [k |-> "data", op |-> cop])
            /\ cpc' = "ackwait"
            /\ hist' = [NoteTransfer(hist) EXCEPT
                          !.ptx = IF hist.written THEN hist.tx ELSE NoTx,
                          !.tx = FreshTx,
                          !.written = TRUE,
                          !.cur.acked = FALSE]
            /\ UNCHANGED attempt
    /\ UNCHANGED <<transport, wire_in, dev_last, dev_bud, dev_osent,
                   dev_rsent, rq, reader_stop, closing, sink, rpc, rdata, rck,
                   rpkt, cop, nops>>
    /\ UNCHANGED <<opsVars, cmdVars, connVars, fnVars, rdVars>>

\* something is on its way to the queue: bytes the device has not handled
\* or the reader has not read, or a frame the reader is working on
InFlight ==
    \/ dev_in # <<>>
    \/ wire_in # <<>>
    \/ rpc \in {"data", "data_rd", "ck", "verify", "deliver"}

\* a wait on the queue ends with an item, or with the timeout; a timeout
\* that beats an answer on its way is a late answer (a bound of the model)
CanWait(q) == q # <<>> \/ ~InFlight \/ dev_bud.faults > 0

AfterWait(q) ==
    IF q = <<>> /\ InFlight THEN [dev_bud EXCEPT !.faults = @ - 1] ELSE dev_bud

\* a _read_ack_nak that takes two items of the queue when there are two
ReadAckNak_TakesTwo(q) ==
    IF q = <<>> THEN [res |-> "timeout", rest |-> q]
    ELSE [res |-> IF Head(q) = ACK THEN "ack"
                  ELSE IF Head(q) = NAK THEN "nak" ELSE "data",
          rest |-> IF Len(q) >= 2 THEN Tail(Tail(q)) ELSE Tail(q)]

\* _read_ack_nak: one item of the queue, or the 5 s timeout on an empty one
ReadAckNak(q) ==
    IF q = <<>> THEN [res |-> "timeout", rest |-> q]
    ELSE [res |-> IF Head(q) = ACK THEN "ack"
                  ELSE IF Head(q) = NAK THEN "nak" ELSE "data",
          rest |-> Tail(q)]

\* a _send_packet that transmits a fourth time
SendPacketNext_FourTries(res, att) ==
    IF res = "ack" THEN "acked"
    ELSE IF att >= MaxRetries THEN "fail"
    ELSE IF res = "nak" THEN "write"
    ELSE "drain"

\* the loop body of _send_packet after the wait: return on Ack, retry on
\* Nak, drain and retry on an RSPIOError, raise on the last attempt
SendPacketNext(res, att) ==
    IF res = "ack" THEN "acked"
    ELSE IF att >= MaxRetries - 1 THEN "fail"
    ELSE IF res = "nak" THEN "write"
    ELSE "drain"

\* a caller that never reads the response
AfterAck_NeverReads(wait) == "idle"

\* a caller that reads a response after every Ack
AfterAck_AlwaysReads(wait) == "resp"

\* what follows the Ack: _send_packet_with_response reads the response,
\* execute_command without wait_for_response returns
AfterAck(wait) == IF wait THEN "resp" ELSE "idle"

C_AckWait ==
    /\ cpc = "ackwait"
    /\ CanWait(rq)
    /\ dev_bud' = AfterWait(rq)
    /\ LET r == ReadAckNak(rq)
           nx == SendPacketNext(r.res, attempt)
           h == [hist EXCEPT
                   !.tx.waits = @ + 1,
                   !.tx.taken = @ + (Len(rq) - Len(r.rest)),
                   !.tx.acks = @ + (IF r.res \in {"ack", "nak"} THEN 1 ELSE 0),
                   !.cur.acked = (r.res = "ack")]
       IN
       /\ rq' = r.rest
       /\ IF nx = "acked"
          THEN /\ cpc' = AfterAck(cop.wait)
               /\ hist' = IF AfterAck(cop.wait) = "idle" THEN EndOp(h, "ok") ELSE h
               /\ attempt' = 0
          ELSE IF nx = "fail"
          THEN /\ cpc' = "idle"
               /\ hist' = EndOp(h, "failed")
               /\ attempt' = 0
          ELSE /\ cpc' = nx
               /\ attempt' = attempt + 1
               /\ hist' = h
    /\ UNCHANGED <<transport, wire_in, dev_in, dev_last, dev_osent, dev_rsent,
                   reader_stop, closing, sink, rpc, rdata, rck, rpkt, cop,
                   nops>>
    /\ UNCHANGED <<opsVars, cmdVars, connVars, fnVars, rdVars>>

\* _drain_input, called by the client thread: recv until a read returns
\* nothing within 100 ms
C_Drain ==
    /\ cpc = "drain"
    /\ IF wire_in # <<>>
       THEN /\ wire_in' = <<>>
            /\ hist' = NoteTransfer(hist)
            /\ UNCHANGED cpc
       ELSE /\ cpc' = "write"
            /\ UNCHANGED <<wire_in, hist>>
    /\ UNCHANGED <<transport, dev_in, dev_last, dev_bud, dev_osent, dev_rsent,
                   rq, reader_stop, closing, sink, rpc, rdata, rck, rpkt, cop,
                   attempt, nops>>
    /\ UNCHANGED <<opsVars, cmdVars, connVars, fnVars, rdVars>>

\* _read_response: skip Ack/Nak, return the first other item; the timeout
\* raises
C_Resp ==
    /\ cpc = "resp"
    /\ CanWait(rq)
    /\ dev_bud' = AfterWait(rq)
    /\ IF rq = <<>>
       THEN /\ cpc' = "idle"
            /\ hist' = EndOp(hist, "failed")
            /\ UNCHANGED rq
       ELSE /\ rq' = Tail(rq)
            /\ IF Head(rq) \in {ACK, NAK}
               THEN /\ hist' = [hist EXCEPT !.tx.acks = @ + 1]
                    /\ UNCHANGED cpc
               ELSE /\ cpc' = "idle"
                    /\ hist' = EndOp([hist EXCEPT !.lastret = Head(rq),
                                                  !.cur.resp = TRUE], "ok")
    /\ UNCHANGED <<transport, wire_in, dev_in, dev_last, dev_osent, dev_rsent,
                   reader_stop, closing, sink, rpc, rdata, rck, rpkt, cop,
                   attempt, nops>>
    /\ UNCHANGED <<opsVars, cmdVars, connVars, fnVars, rdVars>>

\* close(), first part: set the stop event
C_CloseCall ==
    /\ cpc = "idle"
    /\ closing = "no"
    /\ reader_stop' = TRUE
    /\ closing' = "called"
    /\ cpc' = "c_join"
    /\ rpc' \in PastCheck(rpc)
    /\ UNCHANGED <<transport, wire_in, dev_in, dev_last, dev_bud, dev_osent,
                   dev_rsent, rq, sink, rdata, rck, rpkt, cop, attempt, nops,
                   hist>>
    /\ UNCHANGED <<opsVars, cmdVars, connVars, fnVars, rdVars>>

\* self._reader_thread.join(timeout=0.1): returns when the reader has exited
\* or when the 100 ms have passed, whichever comes first
C_CloseJoin ==
    /\ cpc = "c_join"
    /\ cpc' = "c_shut"
    /\ hist' = [hist EXCEPT !.joined = (rpc = "exited")]
    /\ UNCHANGED <<transport, wire_in, dev_in, dev_last, dev_bud, dev_osent,
                   dev_rsent, rq, reader_stop, closing, sink, rpc, rdata, rck,
                   rpkt, cop, attempt, nops>>
    /\ UNCHANGED <<opsVars, cmdVars, connVars, fnVars, rdVars>>

\* a close() that leaves the transport open
ClosedTransport_StaysOpen == "open"

\* the state close() leaves the transport in
ClosedTransport == "closed"

\* the transport is closed, the lock is released and close() returns
C_CloseTransport ==
    /\ cpc = "c_shut"
    /\ transport' = ClosedTransport
    /\ closing' = "returned"
    /\ cpc' = "idle"
    /\ UNCHANGED <<wire_in, dev_in, dev_last, dev_bud, dev_osent, dev_rsent,
                   rq, reader_stop, sink, rpc, rdata, rck, rpkt, cop, attempt,
                   nops, hist>>
    /\ UNCHANGED <<opsVars, cmdVars, connVars, fnVars, rdVars>>

(***************************************************************************)
(* The session specification.  Init is the connection as the constructor   *)
(* leaves it: transport open, reader running, queue empty.                 *)
(***************************************************************************)
InitHist ==
    [rexc |-> FALSE, try_after |-> FALSE, xfer_after |-> FALSE,
     frame |-> NoFrame, badenq |-> FALSE,
     written |-> FALSE, tx |-> FreshTx, ptx |-> NoTx,
     lastret |-> <<>>, joined |-> FALSE,
     prev |-> [outcome |-> "none", acked |-> FALSE, resp |-> FALSE,
               wait |-> FALSE],
     cur |-> FreshOp]

SessInit ==
    /\ transport = "open"
    /\ wire_in = <<>>
    /\ dev_in = <<>>
    /\ dev_last = <<>>
    /\ dev_bud = [faults |-> MaxFaults, log |-> MaxLog]
    /\ dev_osent = <<>>
    /\ dev_rsent = {}
    /\ rq = <<>>
    /\ reader_stop = FALSE
    /\ closing = "no"
    /\ sink = <<>>
    /\ rpc = "loop"
    /\ rdata = <<>>
    /\ rck = <<>>
    /\ rpkt = <<>>
    /\ cpc = "idle"
    /\ cop = NoOp
    /\ attempt = 0
    /\ nops = 0
    /\ hist = InitHist

SessNext ==
    \/ DevRecvData \/ DevRecvNak \/ DevLog
    \/ R_Stop \/ R_ReadClosed \/ R_ReadTimeout \/ R_FirstRead
    \/ R_FrameRead \/ R_DataRead \/ R_Cksum \/ R_Verify \/ R_Deliver
    \/ C_Begin \/ C_Write \/ C_AckWait \/ C_Drain \/ C_Resp
    \/ C_CloseCall \/ C_CloseJoin \/ C_CloseTransport

(***************************************************************************)
(* The high-level operations ls, get and put.  One action per exchange     *)
(* (_send_packet_with_response and the handling of its result) or local    *)
(* file call; an exchange returns the response payload of the device or    *)
(* raises (a timeout, a transport error).                                  *)
(*   ls    opendir, readdir, closedir                                      *)
(*   get   size, open, local_open, pread, close                            *)
(*   put   getsize, open, local_open, pwrite, close                        *)
(***************************************************************************)
sOK == <<79, 75>>                   \* "OK"
sF0 == <<cF, 48>>                   \* "F0"
sFminus1 == <<cF, 45, 49, cComma>>  \* "F-1,"
sFOK == <<cF, 79, 75, cComma>>      \* "FOK,"
sE == <<cE>>                        \* "E"

\* the error responses of the device: "F-1,<errno>" and "E<errno>"
ErrF(errno) == sFminus1 \o <<48 + errno>>

ErrE(errno) == sE \o <<48, 48 + errno>>

\* the outcome of an exchange: a response payload, or an exception
Raise == [ok |-> FALSE, resp |-> <<>>]

Resp(r) == [ok |-> TRUE, resp |-> r]

\* the inputs of the model: directory entries, file contents, descriptors,
\* negotiated packet sizes
DirEntries ==
    {[name |-> <<97>>, kind |-> cF, size |-> 42],
     [name |-> <<100>>, kind |-> 68, size |-> 0]}

RECURSIVE SeqsUpTo(_, _)
SeqsUpTo(S, n) ==
    IF n = 0 THEN {<<>>}
    ELSE LET shorter == SeqsUpTo(S, n - 1)
         IN shorter \cup {Append(s, x) : s \in shorter, x \in S}

Dirs == SeqsUpTo(DirEntries, MaxEntries)

Files == SeqsUpTo({65, 66}, MaxFile)

Fds == {3, 4}

PacketSizes == {0, 2, 24, 25, 27, 29}

\* str.split(',')
RECURSIVE SplitComma(_)
SplitComma(s) ==
    IF \A i \in 1..Len(s) : s[i] # cComma THEN <<s>>
    ELSE LET k == CHOOSE i \in 1..Len(s) :
                     s[i] = cComma /\ \A j \in 1..(i - 1) : s[j] # cComma
         IN <<SubSeq(s, 1, k - 1)>> \o SplitComma(SubSeq(s, k + 1, Len(s)))

\* the device's answer to readdir for entry e
ReaddirResponse(e) ==
    sFOK \o Hexlify(e.name) \o <<cComma, e.kind, cComma>> \o FormatHex(e.size)

\* _vspectranext_opendir and _vspectranext_closedir: anything but "OK"
\* raises
DirOk(x) == x.ok /\ x.resp = sOK

\* _vspectranext_readdir: None on the empty response, the entry
\* (name, entry_type, size) of "FOK,<hex-name>,<type>,<size>", an exception
\* otherwise
ReaddirResult(x) ==
    LET parts == SplitComma(SubSeq(x.resp, 5, Len(x.resp)))
        bad == [what |-> "raise", entry |-> <<>>]
    IN  IF ~x.ok THEN bad
        ELSE IF x.resp = <<>> THEN [what |-> "none", entry |-> <<>>]
        ELSE IF StartsWith(x.resp, sE) THEN bad
        ELSE IF ~StartsWith(x.resp, sFOK) THEN bad
        ELSE IF Len(parts) # 3 THEN bad
        ELSE IF ~Unhexlify(parts[1]).ok \/ ~ParseHexInt(parts[3]).ok THEN bad
        ELSE [what |-> "entry",
              entry |-> <<Unhexlify(parts[1]).val, parts[2],
                          ParseHexInt(parts[3]).val>>]

\* a tuple with the name first
LsTuple_NameFirst(entry) == <<entry[1], entry[2], entry[3]>>

\* ls: entries.append((entry_type, name, size))
LsTuple(entry) == <<entry[2], entry[1], entry[3]>>

\* _vfile_open, _vfile_size, _vfile_pwrite: the number of "F<hex>", an
\* exception on "F-1,<errno>" and on anything else
FNumber(x) ==
    IF ~x.ok \/ StartsWith(x.resp, sFminus1) \/ ~StartsWith(x.resp, <<cF>>)
       \/ ~ParseHexInt(Tail(x.resp)).ok
    THEN [raise |-> TRUE, val |-> 0]
    ELSE [raise |-> FALSE, val |-> ParseHexInt(Tail(x.resp)).val]

\* _vfile_close: anything but "F0" raises
CloseOk(x) == x.ok /\ x.resp = sF0

\* _vfile_pread: the bytes of the hex data, an exception on "F-1,<errno>",
\* on an odd number of digits and on what is no hex
PreadResult(x) ==
    IF ~x.ok \/ StartsWith(x.resp, sFminus1) \/ ~Unhexlify(x.resp).ok
    THEN [raise |-> TRUE, data |-> <<>>]
    ELSE [raise |-> FALSE, data |-> Unhexlify(x.resp).val]

Min(a, b) == IF a < b THEN a ELSE b

\* an f.read that starts at the head of the file every time
ReadChunk_FromStart(file, pos, n) ==
    IF n < 0 THEN file ELSE SubSeq(file, 1, Min(n, Len(file)))

\* f.read(n) at position pos: up to n bytes, all that is left when n < 0
ReadChunk(file, pos, n) ==
    IF n < 0 THEN SubSeq(file, pos + 1, Len(file))
    ELSE SubSeq(file, pos + 1, Min(pos + n, Len(file)))

\* data[:n]
Truncate(data, n) ==
    IF n >= 0 THEN SubSeq(data, 1, Min(n, Len(data)))
    ELSE SubSeq(data, 1, Len(data) + n)

\* the limits of pwrite and of pread
MaxWriteChunk(mps) == (mps - 25) \div 2

MaxReadCount(mps) == (mps - 1) \div 2

\* a get or put without the finally clause
FileOnRaise_NoFinally(pc) == "idle"

\* where an exception raised at position pc of get or put goes: to the
\* finally clause when it is raised in the try statement
FileOnRaise(pc) ==
    IF pc \in {"local_open", "pread", "pwrite"} THEN "close" ELSE "idle"

\* an ls without the finally clause
DirOnRaise_NoFinally(pc) == "idle"

\* where an exception raised at position pc of ls goes
DirOnRaise(pc) == IF pc = "readdir" THEN "closedir" ELSE "idle"

\* a transfer loop of one turn
LoopHead_OneTurn(op, transferred, file_size) ==
    IF transferred = 0 /\ file_size > 0
    THEN IF op = "get" THEN "pread" ELSE "pwrite"
    ELSE "close"

\* the head of the transfer loop: while transferred < file_size
LoopHead(op, transferred, file_size) ==
    IF transferred < file_size
    THEN IF op = "get" THEN "pread" ELSE "pwrite"
    ELSE "close"

NoCall ==
    [op |-> "none", pc |-> "idle", fd |-> -1, entries |-> <<>>,
     transferred |-> 0, file_size |-> 0, f_pos |-> 0, out |-> <<>>,
     exc |-> FALSE, result |-> "none"]

NoRemote == [dir |-> <<>>, sent |-> <<>>, file |-> <<>>, rpos |-> 0, fds |-> <<>>]

\* the call ends at position pc with an exception: through the finally
\* clause, or out of the call
Raised(c, nx) ==
    [c EXCEPT !.pc = nx, !.exc = TRUE,
              !.result = IF nx = "idle" THEN "raised" ELSE "none"]

\* a request is handed to _send_packet_with_response, with outcome x
Logged(cmd, fd, x) == Append(olog, [cmd |-> cmd, fd |-> fd, x |-> x])

\* the caller calls ls, get or put
O_Begin ==
    /\ call.pc = "idle"
    /\ ncalls < MaxCalls
    /\ ncalls' = ncalls + 1
    /\ olog' = <<>>
    /\ \/ /\ call' = [NoCall EXCEPT !.op = "ls", !.pc = "opendir"]
          /\ \E d \in Dirs : remote' = [NoRemote EXCEPT !.dir = d]
          /\ local_file' = <<>>
       \/ /\ call' = [NoCall EXCEPT !.op = "get", !.pc = "size"]
          /\ \E f \in Files : remote' = [NoRemote EXCEPT !.file = f]
          /\ local_file' = <<>>
       \/ /\ call' = [NoCall EXCEPT !.op = "put", !.pc = "getsize"]
          /\ remote' = NoRemote
          /\ \E f \in Files : local_file' = f
    /\ UNCHANGED max_packet_size
    /\ UNCHANGED <<sessVars, cmdVars, connVars, fnVars, rdVars>>

Ls_Opendir ==
    /\ call.pc = "opendir"
    /\ \E x \in {Resp(sOK), Resp(ErrE(2)), Raise} :
          /\ olog' = Logged("opendir", -1, x)
          /\ call' = IF DirOk(x) THEN [call EXCEPT !.pc = "readdir"]
                     ELSE Raised(call, DirOnRaise("opendir"))
    /\ UNCHANGED <<max_packet_size, local_file, remote, ncalls>>
    /\ UNCHANGED <<sessVars, cmdVars, connVars, fnVars, rdVars>>

Ls_Readdir ==
    /\ call.pc = "readdir"
    /\ \E x \in {Resp(IF remote.dir = <<>> THEN <<>>
                      ELSE ReaddirResponse(Head(remote.dir))),
                 Resp(ErrE(5)), Raise} :
          LET r == ReaddirResult(x) IN
          /\ olog' = Logged("readdir", -1, x)
          /\ remote' = IF x.ok /\ StartsWith(x.resp, sFOK)
                       THEN [remote EXCEPT !.dir = Tail(@),
                                           !.sent = Append(@, Head(remote.dir))]
                       ELSE remote
          /\ call' = IF r.what = "none" THEN [call EXCEPT !.pc = "closedir"]
                     ELSE IF r.what = "entry"
                     THEN [call EXCEPT !.entries = Append(@, LsTuple(r.entry))]
                     ELSE Raised(call, DirOnRaise("readdir"))
    /\ UNCHANGED <<max_packet_size, local_file, ncalls>>
    /\ UNCHANGED <<sessVars, cmdVars, connVars, fnVars, rdVars>>

\* the finally clause of ls; the call returns entries, or raises
Ls_Closedir ==
    /\ call.pc = "closedir"
    /\ \E x \in {Resp(sOK), Resp(ErrE(5)), Raise} :
          /\ olog' = Logged("closedir", -1, x)
          /\ call' = [call EXCEPT
                        !.pc = "idle",
                        !.result = IF call.exc \/ ~DirOk(x) THEN "raised"
                                   ELSE "ok"]
    /\ UNCHANGED <<max_packet_size, local_file, remote, ncalls>>
    /\ UNCHANGED <<sessVars, cmdVars, connVars, fnVars, rdVars>>

\* get: file_size = self._vfile_size(remote_path); the device reports the
\* size of the file, or that of a file that is one byte shorter by the time
\* it is read
Get_Size ==
    /\ call.pc = "size"
    /\ \E x \in {Resp(<<cF>> \o FormatHex(Len(remote.file))),
                 Resp(<<cF>> \o FormatHex(Len(remote.file) + 1)),
                 Resp(ErrF(2)), Raise} :
          /\ olog' = Logged("size", -1, x)
          /\ call' = IF FNumber(x).raise THEN Raised(call, FileOnRaise("size"))
                     ELSE [call EXCEPT !.file_size = FNumber(x).val,
                                       !.pc = "open"]
    /\ UNCHANGED <<max_packet_size, local_file, remote, ncalls>>
    /\ UNCHANGED <<sessVars, cmdVars, connVars, fnVars, rdVars>>

\* put: file_size = os.path.getsize(local_path)
Put_Getsize ==
    /\ call.pc = "getsize"
    /\ \/ call' = [call EXCEPT !.file_size = Len(local_file), !.pc = "open"]
       \/ call' = Raised(call, FileOnRaise("getsize"))
    /\ UNCHANGED <<max_packet_size, local_file, remote, olog, ncalls>>
    /\ UNCHANGED <<sessVars, cmdVars, connVars, fnVars, rdVars>>

\* fd = self._vfile_open(...)
File_Open ==
    /\ call.pc = "open"
    /\ \E x \in {Resp(<<cF>> \o FormatHex(fd)) : fd \in Fds}
                \cup {Resp(ErrF(2)), Raise} :
          /\ olog' = Logged("open", -1, x)
          /\ IF FNumber(x).raise
             THEN /\ call' = Raised(call, FileOnRaise("open"))
                  /\ UNCHANGED remote
             ELSE /\ call' = [call EXCEPT !.fd = FNumber(x).val,
                                          !.pc = "local_open"]
                  /\ remote' = [remote EXCEPT
                                  !.fds = Append(@, FNumber(x).val)]
    /\ UNCHANGED <<max_packet_size, local_file, ncalls>>
    /\ UNCHANGED <<sessVars, cmdVars, connVars, fnVars, rdVars>>

\* with open(local_path, ...) as f: the file opens, or the open raises
File_LocalOpen ==
    /\ call.pc = "local_open"
    /\ \/ call' = [call EXCEPT
                     !.pc = LoopHead(call.op, call.transferred, call.file_size)]
       \/ call' = Raised(call, FileOnRaise("local_open"))
    /\ UNCHANGED <<max_packet_size, local_file, remote, olog, ncalls>>
    /\ UNCHANGED <<sessVars, cmdVars, connVars, fnVars, rdVars>>

\* get: one turn of the loop: pread, f.write, transferred += len(chunk_data)
Get_Pread ==
    /\ call.pc = "pread"
    /\ LET count == Min(call.file_size - call.transferred,
                        MaxReadCount(max_packet_size))
           avail == Len(remote.file) - remote.rpos
           sizes == IF Min(count, avail) <= 0 THEN {0} ELSE 1..Min(count, avail)
       IN
       \E x \in {Resp(Hexlify(SubSeq(remote.file, remote.rpos + 1,
                                     remote.rpos + k))) : k \in sizes}
                \cup {Resp(ErrF(5)), Raise} :
          LET r == PreadResult(x) IN
          /\ olog' = Logged("pread", call.fd, x)
          /\ remote' = IF r.raise THEN remote
                       ELSE [remote EXCEPT !.rpos = @ + Len(r.data)]
          /\ IF r.raise
             THEN call' = Raised(call, FileOnRaise("pread"))
             ELSE IF r.data = <<>>
             THEN call' = [call EXCEPT !.pc = "close"]
             ELSE \* f.write writes the chunk, or raises
                  \/ call' = [call EXCEPT
                                !.out = @ \o r.data,
                                !.transferred = @ + Len(r.data),
                                !.pc = LoopHead("get", call.transferred + Len(r.data),
                                                call.file_size)]
                  \/ call' = Raised(call, FileOnRaise("pread"))
    /\ UNCHANGED <<max_packet_size, local_file, ncalls>>
    /\ UNCHANGED <<sessVars, cmdVars, connVars, fnVars, rdVars>>

\* put: one turn of the loop: f.read(max_chunk), pwrite,
\* transferred += bytes_written
Put_Pwrite ==
    /\ call.pc = "pwrite"
    /\ LET chunk == ReadChunk(local_file, call.f_pos,
                              MaxWriteChunk(max_packet_size))
           data == Truncate(chunk, MaxWriteChunk(max_packet_size))
           c == [call EXCEPT !.f_pos = @ + Len(chunk)]
       IN
       IF chunk = <<>>
       THEN /\ call' = [c EXCEPT !.pc = "close"]
            /\ UNCHANGED <<remote, olog>>
       ELSE \* the device accepts the first n bytes of the data and answers
            \* "F<n>", or reports a count that is one more than it was
            \* sent, or answers an error, or does not answer
            \E x \in {Resp(<<cF>> \o FormatHex(n)) : n \in 0..(Len(data) + 1)}
                     \cup {Resp(ErrF(5)), Raise} :
               /\ olog' = Logged("pwrite", call.fd, x)
               /\ IF FNumber(x).raise
                  THEN /\ call' = Raised(c, FileOnRaise("pwrite"))
                       /\ UNCHANGED remote
                  ELSE /\ remote' = [remote EXCEPT
                                       !.file = @ \o SubSeq(data, 1,
                                                   Min(FNumber(x).val,
                                                       Len(data)))]
                       /\ call' = [c EXCEPT
                                     !.transferred = @ + FNumber(x).val,
                                     !.pc = LoopHead("put",
                                                     call.transferred + FNumber(x).val,
                                                     call.file_size)]
    /\ UNCHANGED <<max_packet_size, local_file, ncalls>>
    /\ UNCHANGED <<sessVars, cmdVars, connVars, fnVars, rdVars>>

\* the finally clause of get and put: self._vfile_close(fd); the call
\* returns, or raises
File_Close ==
    /\ call.pc = "close"
    /\ \E x \in {Resp(sF0), Resp(ErrF(5)), Raise} :
          /\ olog' = Logged("close", call.fd, x)
          /\ call' = [call EXCEPT
                        !.pc = "idle",
                        !.result = IF call.exc \/ ~CloseOk(x) THEN "raised"
                                   ELSE "ok"]
    /\ UNCHANGED <<max_packet_size, local_file, remote, ncalls>>
    /\ UNCHANGED <<sessVars, cmdVars, connVars, fnVars, rdVars>>

(***************************************************************************)
(* The command-line layer: a command function (cmd_rm, cmd_exec, ...)      *)
(* constructs a connection, issues its operation, follows the console      *)
(* output when asked to, and closes the connection.  Text is a sequence of *)
(* character codes.                                                        *)
(***************************************************************************)
cSemi == 59       \* ';'
cEq == 61         \* '='

sVSpectranext == <<118, 83, 112, 101, 99, 116, 114, 97, 110, 101, 120, 116, 43>>    \* "vSpectranext+"
sPacketSize == <<80, 97, 99, 107, 101, 116, 83, 105, 122, 101, 61>>    \* "PacketSize="
sQSupported == <<113, 83, 117, 112, 112, 111, 114, 116, 101, 100>>    \* "qSupported"
sQRcmd == <<113, 82, 99, 109, 100, 44>>    \* "qRcmd,"
sLOG == <<91, 76, 79, 71, 93, 32>>    \* "[LOG] "

\* p in s
Contains(s, p) ==
    \E i \in 1..(Len(s) - Len(p) + 1) : SubSeq(s, i, i + Len(p) - 1) = p

\* str.split(c)
RECURSIVE SplitOn(_, _)
SplitOn(s, c) ==
    IF \A i \in 1..Len(s) : s[i] # c THEN <<s>>
    ELSE LET k == CHOOSE i \in 1..Len(s) :
                     s[i] = c /\ \A j \in 1..(i - 1) : s[j] # c
         IN <<SubSeq(s, 1, k - 1)>> \o SplitOn(SubSeq(s, k + 1, Len(s)), c)

\* the first part that starts with p, 0 when there is none: the for loop of
\* _verify_support, which breaks at the first match
FirstPartWith(parts, p) ==
    IF \E i \in 1..Len(parts) : StartsWith(parts[i], p)
    THEN CHOOSE i \in 1..Len(parts) :
            /\ StartsWith(parts[i], p)
            /\ \A j \in 1..(i - 1) : ~StartsWith(parts[j], p)
    ELSE 0

\* the packet size of _verify_support for a response that has the token:
\* the number after "PacketSize=" in the first part that starts with it,
\* read as hexadecimal; mps when there is no such part or the number does
\* not parse (ValueError, caught)
ParsePacketSize(response, mps) ==
    LET parts == SplitOn(response, cSemi)
        i == FirstPartWith(parts, sPacketSize)
    IN  IF ~Contains(response, sPacketSize) \/ i = 0 THEN mps
        ELSE LET packet_size_hex == SplitOn(parts[i], cEq)[2]
             IN IF ParseHexInt(packet_size_hex).ok
                THEN ParseHexInt(packet_size_hex).val ELSE mps

\* a _verify_support that accepts every response
VerifySupport_AcceptsAll(response, mps) ==
    [raise |-> FALSE, size |-> ParsePacketSize(response, mps)]

\* a _verify_support that leaves the packet size alone
VerifySupport_KeepsDefault(response, mps) ==
    [raise |-> ~Contains(response, sVSpectranext), size |-> mps]

\* _verify_support: RSPNotSupportedError when the response lacks
\* "vSpectranext+", the packet size otherwise
VerifySupport(response, mps) ==
    [raise |-> ~Contains(response, sVSpectranext),
     size |-> IF Contains(response, sVSpectranext)
              THEN ParsePacketSize(response, mps) ELSE mps]

\* the responses of the device to qSupported
QSupportedResponses ==
    {sPacketSize \o <<52, 48, 48, cSemi>> \o sVSpectranext,
     sVSpectranext \o <<cSemi>> \o sPacketSize \o <<49, 98>>,
     sPacketSize \o <<122, 122, cSemi>> \o sVSpectranext,
     sVSpectranext,
     sPacketSize \o <<52, 48, 48>>,
     <<>>}

\* the packet of an operation, for a sample path, descriptor and command
PacketOf(op) ==
    CASE op = "open" -> <<118, 70, 105, 108, 101, 58, 111, 112, 101, 110, 58, 48, 44, 48, 44, 48, 44, 50, 102, 54, 49>>
      [] op = "close" -> <<118, 70, 105, 108, 101, 58, 99, 108, 111, 115, 101, 58, 51>>
      [] op = "pread" -> <<118, 70, 105, 108, 101, 58, 112, 114, 101, 97, 100, 58, 51, 44, 50>>
      [] op = "pwrite" -> <<118, 70, 105, 108, 101, 58, 112, 119, 114, 105, 116, 101, 58, 51, 44, 52, 49>>
      [] op = "size" -> <<118, 70, 105, 108, 101, 58, 115, 105, 122, 101, 58, 50, 102, 54, 49>>
      [] op = "exists" -> <<118, 70, 105, 108, 101, 58, 101, 120, 105, 115, 116, 115, 58, 50, 102, 54, 49>>
      [] op = "unlink" -> <<118, 70, 105, 108, 101, 58, 117, 110, 108, 105, 110, 107, 58, 50, 102, 54, 49>>
      [] op = "reboot" -> <<118, 83, 112, 101, 99, 116, 114, 97, 110, 101, 120, 116, 58, 114, 101, 98, 111, 111, 116>>
      [] op = "autoboot" -> <<118, 83, 112, 101, 99, 116, 114, 97, 110, 101, 120, 116, 58, 97, 117, 116, 111, 98, 111, 111, 116>>
      [] op = "opendir" -> <<118, 83, 112, 101, 99, 116, 114, 97, 110, 101, 120, 116, 58, 111, 112, 101, 110, 100, 105, 114, 58, 50, 102>>
      [] op = "readdir" -> <<118, 83, 112, 101, 99, 116, 114, 97, 110, 101, 120, 116, 58, 114, 101, 97, 100, 100, 105, 114>>
      [] op = "closedir" -> <<118, 83, 112, 101, 99, 116, 114, 97, 110, 101, 120, 116, 58, 99, 108, 111, 115, 101, 100, 105, 114>>
      [] op = "mv" -> <<118, 83, 112, 101, 99, 116, 114, 97, 110, 101, 120, 116, 58, 109, 118, 58, 50, 102, 54, 49, 44, 50, 102, 54, 50>>
      [] op = "mkdir" -> <<118, 83, 112, 101, 99, 116, 114, 97, 110, 101, 120, 116, 58, 109, 107, 100, 105, 114, 58, 50, 102, 54, 52>>
      [] op = "rmdir" -> <<118, 83, 112, 101, 99, 116, 114, 97, 110, 101, 120, 116, 58, 114, 109, 100, 105, 114, 58, 50, 102, 54, 52>>
      [] op = "qSupported" -> sQSupported
      [] OTHER -> sQRcmd \o <<54, 56>>      \* "qRcmd,68": the command "h"

(***************************************************************************)
(* Errors.  The exception classes of spx.py are "NotSupported", "Io",      *)
(* "NotFound", "PermissionDenied", "Exists", "Invalid" (the subclasses of  *)
(* RSPException) and "RSPException" itself; "ValueError" stands for the    *)
(* built-in ValueError and its subclasses binascii.Error and               *)
(* UnicodeDecodeError, "SystemExit" for sys.exit.                          *)
(***************************************************************************)
ErrorKinds ==
    {"NotSupported", "Io", "NotFound", "PermissionDenied", "Exists", "Invalid"}

IsDigit(c) == c \in 48..57

RECURSIVE DecMagnitude(_)
DecMagnitude(s) ==
    IF s = <<>> THEN 0
    ELSE 10 * DecMagnitude(SubSeq(s, 1, Len(s) - 1)) + (s[Len(s)] - 48)

\* int(s) on the model's alphabet: an optional sign, then one or more
\* decimal digits; anything else raises ValueError
ParseDecInt(s) ==
    LET signed == s # <<>> /\ s[1] \in {cPlus, cMinus}
        digits == IF signed THEN Tail(s) ELSE s
    IN  IF digits = <<>> \/ \E i \in 1..Len(digits) : ~IsDigit(digits[i])
        THEN [ok |-> FALSE, val |-> 0]
        ELSE [ok |-> TRUE,
              val |-> IF signed /\ s[1] = cMinus
                      THEN 0 - DecMagnitude(digits) ELSE DecMagnitude(digits)]

\* _parse_errno
ParseErrno(response) ==
    IF StartsWith(response, sFminus1)
    THEN ParseDecInt(SubSeq(response, 5, Len(response)))
    ELSE IF StartsWith(response, sE) THEN ParseDecInt(Tail(response))
    ELSE [ok |-> TRUE, val |-> 0]

\* _raise_error: the exception class for an errno
RaiseError(errno) ==
    IF errno = 2 THEN "NotFound"
    ELSE IF errno = 5 THEN "Io"
    ELSE IF errno = 13 THEN "PermissionDenied"
    ELSE IF errno = 17 THEN "Exists"
    ELSE IF errno = 22 THEN "Invalid"
    ELSE "Io"

\* errno = self._parse_errno(response); self._raise_error(errno, ...)
ErrnoRaised(response) ==
    IF ParseErrno(response).ok THEN RaiseError(ParseErrno(response).val)
    ELSE "ValueError"

\* the L4 operations by the way they read their response
NumberOps == {"open", "size", "pwrite"}     \* F<hex>
F0Ops == {"close", "unlink"}                \* F0
OkOps == {"opendir", "closedir", "mv", "mkdir", "rmdir"}   \* OK, E<errno>
PlainOkOps == {"reboot", "autoboot"}        \* OK

L4Ops == NumberOps \cup F0Ops \cup OkOps \cup PlainOkOps
         \cup {"pread", "exists", "readdir"}

\* unhexlify(hex_str).decode('utf-8') of _decode_path raises on what is no
\* hex and on a byte that is no ASCII (the model has no multi-byte text)
DecodePathOk(hex_str) ==
    /\ Unhexlify(hex_str).ok
    /\ \A i \in 1..Len(Unhexlify(hex_str).val) : Unhexlify(hex_str).val[i] < 128

\* the outcome of the L4 operation op on the response: "ok" when it
\* returns, the class of the exception when it raises
L4Outcome(op, response) ==
    IF op \in NumberOps THEN
        IF StartsWith(response, sFminus1) THEN ErrnoRaised(response)
        ELSE IF ~StartsWith(response, <<cF>>) THEN "Io"
        ELSE IF ParseHexInt(Tail(response)).ok THEN "ok" ELSE "ValueError"
    ELSE IF op \in F0Ops THEN
        IF StartsWith(response, sFminus1) THEN ErrnoRaised(response)
        ELSE IF response # sF0 THEN "Io" ELSE "ok"
    ELSE IF op = "exists" THEN
        IF StartsWith(response, sFminus1) THEN ErrnoRaised(response)
        ELSE IF response \in {<<cF, cComma, 49>>, <<cF, cComma, 48>>} THEN "ok"
        ELSE "Io"
    ELSE IF op = "pread" THEN
        IF StartsWith(response, sFminus1) THEN ErrnoRaised(response)
        ELSE IF response = <<>> THEN "ok"
        ELSE IF Len(response) % 2 # 0 THEN "Io"
        ELSE IF Unhexlify(response).ok THEN "ok" ELSE "ValueError"
    ELSE IF op \in PlainOkOps THEN
        IF response # sOK THEN "Io" ELSE "ok"
    ELSE IF op \in OkOps THEN
        IF StartsWith(response, sE) THEN ErrnoRaised(response)
        ELSE IF response # sOK THEN "Io" ELSE "ok"
    ELSE \* readdir
        IF response = <<>> THEN "ok"
        ELSE IF StartsWith(response, sE) THEN ErrnoRaised(response)
        ELSE IF ~StartsWith(response, sFOK) THEN "Io"
        ELSE LET parts == SplitOn(SubSeq(response, 5, Len(response)), cComma)
             IN IF Len(parts) # 3 THEN "Io"
                ELSE IF ~DecodePathOk(parts[1]) THEN "ValueError"
                ELSE IF ~ParseHexInt(parts[3]).ok THEN "ValueError"
                ELSE "ok"

\* execute_command with wait_for_response: "OK" and what is no E-code are
\* returned, E01..E04 raise RSPInvalidError, other E-codes RSPIOError
ExecOutcome(response) ==
    IF response = sOK THEN "ok"
    ELSE IF StartsWith(response, sE)
    THEN IF response \in {<<cE, 48, 49>>, <<cE, 48, 50>>, <<cE, 48, 51>>,
                          <<cE, 48, 52>>}
         THEN "Invalid" ELSE "Io"
    ELSE "ok"

\* the responses of the device to an operation, well-formed and not
Responses ==
    {sOK, sF0, <<cF, 51>>, <<>>,
     <<cF, cComma, 49>>,
     <<52, 49>>,                         \* "41"
     sFOK \o <<54, 49, cComma, cF, cComma, 50, 97>>,     \* "FOK,61,F,2a"
     sE \o <<50>>, sE \o <<48, 53>>, sE \o <<49, 51>>, sE \o <<49, 55>>,
     sE \o <<50, 50>>, sE \o <<57>>,
     sFminus1 \o <<50>>, sFminus1 \o <<49, 51>>, sFminus1 \o <<57>>,
     sE \o <<120>>,                      \* "Ex"
     sFminus1 \o <<120>>,                \* "F-1,x"
     <<cF, 122>>,                        \* "Fz"
     <<122, 122>>,                       \* "zz"
     sFOK \o <<122, 122, cComma, cF, cComma, 50, 97>>,   \* "FOK,zz,F,2a"
     sFOK \o <<54, 49, cComma, cF, cComma, 122>>}        \* "FOK,61,F,z"

(***************************************************************************)
(* The command function.  One action per blocking call.                    *)
(*   start      SPXConnection(...): transport setup                        *)
(*   drain      __init__: self._drain_input()                              *)
(*   reader     __init__: self._start_reader_thread(), _verify_support     *)
(*   write      _send_packet: self._write(packet_bytes)                    *)
(*   ackwait    _send_packet: self._read_ack_nak()                         *)
(*   resp       _read_response                                             *)
(*   command    the command function after the constructor has returned    *)
(*   after_cmd  cmd_exec, cmd_autoboot: the operation has returned         *)
(*   loop       the head of the follow loop                                *)
(*   sleep      time.sleep(0.1)                                            *)
(*   close      conn.close() of the finally clause                         *)
(*   done       the command function has returned or raised                *)
(*   exited     main has returned or called sys.exit, or the exception     *)
(*              has ended the interpreter                                  *)
(***************************************************************************)
pyNone == -1          \* None, for a timeout and for follow_seconds
DefaultTimeout == 5   \* seconds
TicksPerSecond == 10  \* time.sleep(0.1)

MaxChunks == 2        \* O-packet chunks the device streams
MaxTicks == 10        \* turns of the follow loop
MaxDelay == 6         \* seconds the device takes to send a response
MaxSigints == 1       \* Ctrl-C

Delays == {0, MaxDelay}

\* args.follow: absent, -f, -f SECONDS
Follows ==
    {[enabled |-> FALSE, seconds |-> pyNone],
     [enabled |-> TRUE, seconds |-> pyNone],
     [enabled |-> TRUE, seconds |-> 0],
     [enabled |-> TRUE, seconds |-> 1]}

ExecResponses == {sOK, <<cE, 48, 49>>, <<cE, 48, 53>>, <<122, 122>>}

NoCli ==
    [cmd |-> "none", follow_enabled |-> FALSE, follow_seconds |-> pyNone,
     pc |-> "done", conn |-> "none", drained |-> FALSE, reader |-> FALSE,
     constructed |-> FALSE, qseen |-> FALSE, qresp |-> <<>>,
     op |-> "none", wait |-> FALSE, timeout |-> pyNone, after |-> "none",
     attempt |-> 0, frames |-> <<>>, outcomes |-> <<>>, sent |-> "none",
     packets |-> <<>>, response |-> <<>>, timed_out |-> FALSE,
     callback |-> FALSE, streaming |-> FALSE, should_stop |-> FALSE,
     ticks |-> 0, sigints |-> 0, stop_tick |-> pyNone, left_loop |-> FALSE,
     chunks |-> 0, followed |-> <<>>, stdout |-> <<>>, stderr |-> <<>>,
     diag |-> FALSE, exit_code |-> pyNone, result |-> "none"]

\* execute_command: timeout = response_timeout if response_timeout is not
\* None else 5.0
EffectiveTimeout(response_timeout) ==
    IF response_timeout # pyNone THEN response_timeout ELSE DefaultTimeout

\* _read_response raises "Timeout waiting for response" when the response
\* takes the timeout or longer; with timeout None it waits
TimedOut(timeout, delay) == timeout # pyNone /\ delay >= timeout

\* a follow loop that ignores the time limit
FollowDone_IgnoresLimit(stop, seconds, ticks) == stop

\* the exit conditions of the follow loop: the flag, or the time limit
FollowDone(stop, seconds, ticks) ==
    \/ stop
    \/ seconds # pyNone /\ ticks >= seconds * TicksPerSecond

\* self.max_packet_size lowered by the handling of a later response
PacketSizeAfter_Lowers(after, response, mps) ==
    IF after = "verify" THEN VerifySupport(response, mps).size ELSE mps - 1

\* self.max_packet_size after the response to a packet has been handled:
\* it is assigned in __init__ and in _verify_support, which only __init__
\* calls
PacketSizeAfter(after, response, mps) ==
    IF after = "verify" THEN VerifySupport(response, mps).size ELSE mps

\* a packet is handed to _send_packet
BeginSend(c, op, wait, timeout, after) ==
    [c EXCEPT !.pc = "write", !.op = op, !.wait = wait, !.timeout = timeout,
              !.after = after, !.attempt = 0, !.frames = <<>>,
              !.outcomes = <<>>, !.sent = "sending",
              !.packets = Append(@, op)]

\* an exception of class kind leaves the command function: out of the
\* constructor, which the command function calls before its try statement,
\* or through the finally clause that closes the connection
CliRaise(c, kind) ==
    [c EXCEPT !.result = kind,
              !.pc = IF c.constructed THEN "close" ELSE "done"]

Cli_Start ==
    /\ cli.pc = "start"
    /\ \/ cli' = [cli EXCEPT !.conn = "open", !.pc = "drain"]
       \/ cli' = CliRaise(cli, "RSPException")
    /\ UNCHANGED <<sessVars, opsVars, connVars, fnVars, rdVars>>

Cli_Drain ==
    /\ cli.pc = "drain"
    /\ cli' = [cli EXCEPT !.drained = TRUE, !.pc = "reader"]
    /\ UNCHANGED <<sessVars, opsVars, connVars, fnVars, rdVars>>

\* the reader thread is started and _verify_support sends qSupported
Cli_StartReader ==
    /\ cli.pc = "reader"
    /\ cli' = BeginSend([cli EXCEPT !.reader = TRUE], "qSupported", TRUE,
                        DefaultTimeout, "verify")
    /\ UNCHANGED <<sessVars, opsVars, connVars, fnVars, rdVars>>

Cli_Write ==
    /\ cli.pc = "write"
    /\ cli' = [cli EXCEPT !.frames = Append(@, Frame(PacketOf(cli.op))),
                          !.pc = "ackwait"]
    /\ UNCHANGED <<sessVars, opsVars, connVars, fnVars, rdVars>>

\* the queue as _read_ack_nak finds it: empty until the timeout, or with
\* an Ack, a Nak or a data packet at its head
AckQueues == {<<>>, <<ACK>>, <<NAK>>, <<sOK>>}

Cli_AckWait ==
    /\ cli.pc = "ackwait"
    /\ \E q \in AckQueues :
          LET r == ReadAckNak(q)
              nx == SendPacketNext(r.res, cli.attempt)
              c == [cli EXCEPT !.outcomes = Append(@, r.res)]
          IN  cli' = IF nx = "acked"
                     THEN [c EXCEPT !.sent = "acked",
                                    !.pc = IF cli.wait THEN "resp"
                                           ELSE "after_cmd"]
                     ELSE IF nx = "fail"
                     THEN CliRaise([c EXCEPT !.sent = "failed"], "Io")
                     ELSE \* retry, after _drain_input unless it was a Nak
                          [c EXCEPT !.attempt = @ + 1, !.pc = "write"]
    /\ UNCHANGED <<sessVars, opsVars, connVars, fnVars, rdVars>>

\* _verify_support: the response to qSupported
Ctor_Verify ==
    /\ cli.pc = "resp"
    /\ cli.after = "verify"
    /\ \E response \in QSupportedResponses, delay \in Delays :
          IF TimedOut(cli.timeout, delay)
          THEN /\ cli' = CliRaise([cli EXCEPT !.timed_out = TRUE], "Io")
               /\ UNCHANGED max_packet_size
          ELSE IF VerifySupport(response, max_packet_size).raise
          THEN /\ cli' = CliRaise([cli EXCEPT !.qresp = response,
                                                !.qseen = TRUE],
                                  "NotSupported")
               /\ UNCHANGED max_packet_size
          ELSE /\ cli' = [cli EXCEPT !.qresp = response,
                                     !.qseen = TRUE,
                                     !.constructed = TRUE,
                                     !.pc = "command"]
               /\ max_packet_size' =
                     PacketSizeAfter("verify", response, max_packet_size)
    /\ UNCHANGED <<local_file, call, remote, olog, ncalls>>
    /\ UNCHANGED <<sessVars, connVars, fnVars, rdVars>>

\* the command function issues its operation
Cli_Command ==
    /\ cli.pc = "command"
    /\ IF cli.cmd = "op"
       THEN \E op \in L4Ops :
               cli' = BeginSend(cli, op, TRUE, DefaultTimeout, "op")
       ELSE IF cli.cmd = "autoboot"
       THEN cli' = BeginSend(cli, "autoboot", TRUE, DefaultTimeout, "op")
       ELSE \* cmd_exec: execute_command(args.cmd,
            \*     wait_for_response=follow_enabled, response_timeout=None)
            cli' = BeginSend(cli, "qRcmd", cli.follow_enabled,
                             EffectiveTimeout(pyNone), "exec")
    /\ UNCHANGED <<sessVars, opsVars, connVars, fnVars, rdVars>>

\* the response to the packet of an L4 operation
Op_Result ==
    /\ cli.pc = "resp"
    /\ cli.after = "op"
    /\ \E response \in Responses, delay \in Delays :
          /\ cli' =
                IF TimedOut(cli.timeout, delay)
                THEN CliRaise([cli EXCEPT !.timed_out = TRUE], "Io")
                ELSE IF L4Outcome(cli.op, response) # "ok"
                THEN CliRaise([cli EXCEPT !.response = response],
                              L4Outcome(cli.op, response))
                ELSE [cli EXCEPT !.response = response,
                                 !.pc = IF cli.cmd = "autoboot"
                                        THEN "after_cmd" ELSE "close"]
          /\ max_packet_size' =
                PacketSizeAfter("op", response, max_packet_size)
    /\ UNCHANGED <<local_file, call, remote, olog, ncalls>>
    /\ UNCHANGED <<sessVars, connVars, fnVars, rdVars>>

\* execute_command: the response to qRcmd
Exec_Result ==
    /\ cli.pc = "resp"
    /\ cli.after = "exec"
    /\ \E response \in ExecResponses, delay \in Delays :
          /\ cli' =
                IF TimedOut(cli.timeout, delay)
                THEN CliRaise([cli EXCEPT !.timed_out = TRUE], "Io")
                ELSE IF ExecOutcome(response) # "ok"
                THEN CliRaise([cli EXCEPT !.response = response],
                              ExecOutcome(response))
                ELSE [cli EXCEPT !.response = response, !.pc = "after_cmd"]
          /\ max_packet_size' =
                PacketSizeAfter("exec", response, max_packet_size)
    /\ UNCHANGED <<local_file, call, remote, olog, ncalls>>
    /\ UNCHANGED <<sessVars, connVars, fnVars, rdVars>>

\* cmd_exec and cmd_autoboot after the operation: return, or install the
\* follow sink and enter the follow loop
Cli_AfterCmd ==
    /\ cli.pc = "after_cmd"
    /\ cli' =
          IF ~cli.follow_enabled THEN [cli EXCEPT !.pc = "close"]
          ELSE IF cli.cmd = "exec" /\ cli.response # <<>>
                  /\ cli.response # sOK
          THEN \* print(f"Error: {response}", file=sys.stderr); return
               [cli EXCEPT !.diag = TRUE, !.pc = "close"]
          ELSE [cli EXCEPT !.streaming = TRUE, !.callback = TRUE,
                           !.ticks = 0, !.pc = "loop"]
    /\ UNCHANGED <<sessVars, opsVars, connVars, fnVars, rdVars>>

\* the head of the follow loop; on exit the finally clause removes the
\* follow sink
Cli_LoopCheck ==
    /\ cli.pc = "loop"
    /\ cli' =
          IF FollowDone(cli.should_stop, cli.follow_seconds, cli.ticks)
          THEN [cli EXCEPT !.callback = FALSE, !.left_loop = TRUE,
                           !.pc = "close"]
          ELSE [cli EXCEPT !.pc = "sleep"]
    /\ UNCHANGED <<sessVars, opsVars, connVars, fnVars, rdVars>>

Cli_Sleep ==
    /\ cli.pc = "sleep"
    /\ cli.ticks < MaxTicks
    /\ cli' = [cli EXCEPT !.ticks = @ + 1, !.pc = "loop"]
    /\ UNCHANGED <<sessVars, opsVars, connVars, fnVars, rdVars>>

\* conn.close(); the command function returns, or the exception goes on
Cli_Close ==
    /\ cli.pc = "close"
    /\ cli' = [cli EXCEPT !.conn = "closed", !.reader = FALSE,
                          !.pc = "done",
                          !.result = IF @ = "none" THEN "ok" ELSE @]
    /\ UNCHANGED <<sessVars, opsVars, connVars, fnVars, rdVars>>

\* Ctrl-C once signal_handler is installed (cmd_exec, cmd_autoboot, after
\* the constructor): the flag is set while streaming, sys.exit(1) before
Cli_Sigint ==
    /\ cli.cmd \in {"exec", "autoboot"}
    /\ cli.constructed
    /\ cli.pc \notin {"close", "done", "exited"}
    /\ cli.sigints < MaxSigints
    /\ cli' = IF cli.streaming
              THEN [cli EXCEPT !.sigints = @ + 1, !.should_stop = TRUE,
                               !.stop_tick = IF cli.should_stop THEN @
                                             ELSE cli.ticks]
              ELSE CliRaise([cli EXCEPT !.sigints = @ + 1], "SystemExit")
    /\ UNCHANGED <<sessVars, opsVars, connVars, fnVars, rdVars>>

\* the device streams an O-packet chunk and the reader thread hands it to
\* the sink: the callback when one is installed, "[LOG] " on the
\* diagnostic stream otherwise
Cli_OPacket ==
    /\ cli.reader
    /\ cli.conn = "open"
    /\ cli.chunks < MaxChunks
    /\ LET packet == OPacket(cli.chunks + 1)
           log_msg == DecodeOPacket(packet)
           c == [cli EXCEPT
                   !.chunks = @ + 1,
                   !.followed = IF cli.op = "qRcmd" /\ cli.frames # <<>>
                                THEN Append(@, log_msg) ELSE @]
       IN  /\ IsOPacket(packet)
           /\ log_msg # <<>>
           /\ cli' = IF cli.callback
                     THEN [c EXCEPT !.stdout = Append(@, log_msg)]
                     ELSE [c EXCEPT !.stderr = Append(@, sLOG \o log_msg)]
    /\ UNCHANGED <<sessVars, opsVars, connVars, fnVars, rdVars>>

\* the exit status of the process for what came out of the command
\* function: 0 when it returned, 1 from sys.exit(1) of an except clause of
\* main or of signal_handler, 1 from the interpreter for an exception main
\* does not catch
ExitCode(result) == IF result = "ok" THEN 0 ELSE 1

\* main after the command function: the except clauses print "Error: ..."
\* for RSPException and its subclasses
Main_Exit ==
    /\ cli.pc = "done"
    /\ cli.cmd # "none"
    /\ cli' = [cli EXCEPT
                 !.diag = IF cli.result \in ErrorKinds \cup {"RSPException"}
                          THEN TRUE ELSE @,
                 !.exit_code = ExitCode(cli.result),
                 !.pc = "exited"]
    /\ UNCHANGED <<sessVars, opsVars, connVars, fnVars, rdVars>>

\* no command is running
CmdQuiet == cli = NoCli

\* a command function is called
CmdInit ==
    \E cmd \in {"op", "exec", "autoboot"}, f \in Follows :
        /\ cmd = "op" => ~f.enabled
        /\ cli = [NoCli EXCEPT !.cmd = cmd, !.follow_enabled = f.enabled,
                               !.follow_seconds = f.seconds, !.pc = "start"]

CmdNext ==
    \/ Cli_Start \/ Cli_Drain \/ Cli_StartReader
    \/ Cli_Write \/ Cli_AckWait
    \/ Ctor_Verify \/ Cli_Command \/ Op_Result \/ Exec_Result
    \/ Cli_AfterCmd \/ Cli_LoopCheck \/ Cli_Sleep \/ Cli_Close
    \/ Cli_Sigint \/ Cli_OPacket \/ Main_Exit

(***************************************************************************)
(* The connection layer: the choice of the endpoint, the device lock of a  *)
(* serial connection, the reader thread's exit and close(), for two        *)
(* SPXConnection objects made on one host (in one process or in two).      *)
(*                                                                         *)
(* Positions of a connection (pc):                                         *)
(*   new          SPXConnection(port) has been called                      *)
(*   connect      __init__: _connect_tcp() or _connect_usb()               *)
(*   flock_nb     _connect_usb: fcntl.flock(LOCK_EX | LOCK_NB)             *)
(*   flock_wait   _connect_usb: fcntl.flock(LOCK_EX)                       *)
(*   win_lock     _connect_usb: the retry loop around msvcrt.locking       *)
(*   serial_open  _connect_usb: serial.Serial(...)                         *)
(*   construct    __init__: drain, reader thread, _verify_support          *)
(*   ready        the constructor has returned                             *)
(*   failed       the constructor has raised                               *)
(*   c_join       close(): the stop event is set, joining the reader       *)
(*   c_transport  close(): closing the socket or the serial port           *)
(*   c_unlock     close(): releasing the lock, closing its descriptor      *)
(*   c_unlink     close(): os.unlink(self._lock_file)                      *)
(*   closed       close() has returned                                     *)
(*   close_raised close() has raised                                       *)
(***************************************************************************)
cColon == 58       \* ord(':')

MaxLockRetries == 2   \* turns of the retry loop of the msvcrt lock
MaxEofReads == 2      \* reads of the reader on a transport the peer closed
MaxCloses == 2        \* calls of close() on a connection

Conns == {1, 2}

sLocalhost1337 ==
    <<108, 111, 99, 97, 108, 104, 111, 115, 116, 58, 49, 51, 51, 55>>

sSerialPath == <<47, 100>>          \* "/d", a serial path
sHostPort == <<104, 58, 49>>        \* "h:1"
sPortNumber == <<55>>               \* "7"

\* str.isdigit()
IsDigitStr(s) == s # <<>> /\ \A i \in 1..Len(s) : IsDigit(s[i])

\* ':' in port or port.isdigit()
LooksTcp(port) == Contains(port, <<cColon>>) \/ IsDigitStr(port)

\* what find_spectranext_device() does: a port, no port, an exception
Discoveries ==
    {[raise |-> FALSE, port |-> sSerialPath],
     [raise |-> FALSE, port |-> <<>>],
     [raise |-> TRUE, port |-> <<>>]}

\* the port arguments (None and "" are <<>>) and the values of
\* SPECTRANEXT_CLI (unset and "" are <<>>)
PortArgs == {<<>>, sSerialPath, sPortNumber}
EnvPorts == {<<>>, sSerialPath, sHostPort}

\* a constructor that consults the environment before its argument
SelectEndpoint_EnvFirst(port, env_port, found) ==
    IF env_port # <<>>
    THEN [is_tcp |-> LooksTcp(env_port), port |-> env_port]
    ELSE IF port # <<>>
    THEN [is_tcp |-> LooksTcp(port), port |-> port]
    ELSE IF ~found.raise /\ found.port # <<>>
    THEN [is_tcp |-> FALSE, port |-> found.port]
    ELSE [is_tcp |-> TRUE, port |-> sLocalhost1337]

\* __init__: self.is_tcp and self.port
SelectEndpoint(port, env_port, found) ==
    IF port # <<>>
    THEN [is_tcp |-> LooksTcp(port), port |-> port]
    ELSE IF env_port # <<>>
    THEN [is_tcp |-> LooksTcp(env_port), port |-> env_port]
    ELSE IF ~found.raise /\ found.port # <<>>
    THEN [is_tcp |-> FALSE, port |-> found.port]
    ELSE [is_tcp |-> TRUE, port |-> sLocalhost1337]

\* a lock that is granted whoever holds it
LockFree_Always(holder) == TRUE

\* LOCK_EX | LOCK_NB and LK_NBLCK succeed when no other descriptor holds
\* the lock
LockFree(holder) == holder = 0

\* _reader_thread_func: the loop ends when the stop event is set: a read
\* that returns b'' (a timeout, or a socket the peer has closed) makes
\* _read_packet_from_stream return None, and an exception is swallowed
ReaderLoopNext(stop, read) == IF stop THEN "exited" ELSE "running"

NoConn ==
    [pc |-> "none", arg |-> <<>>, port |-> <<>>, is_tcp |-> FALSE,
     lock_fd |-> FALSE, retry_count |-> 0, waited |-> FALSE,
     ser |-> "none", sock |-> "none", reader |-> "none", stop |-> FALSE,
     peer |-> "up", eof_reads |-> 0, exchanged |-> FALSE, steps |-> <<>>,
     result |-> "none", thread |-> FALSE, calls |-> 0, again |-> <<>>,
     left_as |-> <<>>]

\* what a call of close() can change: the socket, the serial port, the
\* descriptor of the lock, and who holds the lock
ClosedState(c) ==
    <<conns[c].sock, conns[c].ser, conns[c].lock_fd, host.holder = c>>

\* a step of close() is recorded: of the first call in steps, of the
\* latest of the calls after it in again
Stepped(r, s) ==
    IF r.calls <= 1 THEN [r EXCEPT !.steps = Append(@, s)]
    ELSE [r EXCEPT !.again = Append(@, s)]

\* the constructor raises
ConnRaise(r, kind) == [r EXCEPT !.pc = "failed", !.result = kind]

\* __init__ up to the connect
Conn_Init(c) ==
    /\ conns[c].pc = "new"
    /\ LET e == SelectEndpoint(conns[c].arg, host.env, host.found)
       IN  conns' = [conns EXCEPT ![c].port = e.port, ![c].is_tcp = e.is_tcp,
                                  ![c].pc = "connect"]
    /\ UNCHANGED <<host, sessVars, opsVars, cmdVars, fnVars, rdVars>>

\* _connect_tcp
Conn_ConnectTcp(c) ==
    /\ conns[c].pc = "connect"
    /\ conns[c].is_tcp
    /\ \/ conns' = [conns EXCEPT ![c].sock = "open", ![c].pc = "construct"]
       \/ conns' = [conns EXCEPT ![c] = ConnRaise(@, "RSPException")]
    /\ UNCHANGED <<host, sessVars, opsVars, cmdVars, fnVars, rdVars>>

\* _connect_usb: os.open of the device file (fcntl), or the entry of the
\* retry loop (msvcrt)
Usb_Begin(c) ==
    /\ conns[c].pc = "connect"
    /\ ~conns[c].is_tcp
    /\ IF host.platform = "fcntl"
       THEN \/ conns' = [conns EXCEPT ![c].lock_fd = TRUE,
                                      ![c].pc = "flock_nb"]
            \/ conns' = [conns EXCEPT ![c] = ConnRaise(@, "RSPException")]
       ELSE conns' = [conns EXCEPT ![c].pc = "win_lock"]
    /\ UNCHANGED <<host, sessVars, opsVars, cmdVars, fnVars, rdVars>>

\* fcntl.flock(self._lock_fd, LOCK_EX | LOCK_NB): the lock, EWOULDBLOCK, or
\* another error, which closes the descriptor and raises
Usb_FlockNb(c) ==
    /\ conns[c].pc = "flock_nb"
    /\ \/ /\ LockFree(host.holder)
          /\ host' = [host EXCEPT !.holder = c]
          /\ conns' = [conns EXCEPT ![c].pc = "serial_open"]
       \/ /\ ~LockFree(host.holder)
          /\ conns' = [conns EXCEPT ![c].pc = "flock_wait",
                                    ![c].waited = TRUE]
          /\ UNCHANGED host
       \/ /\ conns' = [conns EXCEPT
                         ![c] = ConnRaise([@ EXCEPT !.lock_fd = FALSE],
                                          "RSPException")]
          /\ UNCHANGED host
    /\ UNCHANGED <<sessVars, opsVars, cmdVars, fnVars, rdVars>>

\* fcntl.flock(self._lock_fd, LOCK_EX) returns when the lock is free
Usb_FlockWait(c) ==
    /\ conns[c].pc = "flock_wait"
    /\ LockFree(host.holder)
    /\ host' = [host EXCEPT !.holder = c]
    /\ conns' = [conns EXCEPT ![c].pc = "serial_open"]
    /\ UNCHANGED <<sessVars, opsVars, cmdVars, fnVars, rdVars>>

\* one turn of the retry loop: os.open(lock_file, O_CREAT | O_RDWR) and
\* msvcrt.locking(LK_NBLCK); after the last turn "timeout waiting for lock"
Win_TryLock(c) ==
    /\ conns[c].pc = "win_lock"
    /\ IF conns[c].retry_count >= MaxLockRetries
       THEN /\ conns' = [conns EXCEPT ![c] = ConnRaise(@, "RSPException")]
            /\ UNCHANGED host
       ELSE IF LockFree(host.holder)
       THEN /\ host' = [host EXCEPT !.holder = c, !.lock_file = TRUE]
            /\ conns' = [conns EXCEPT ![c].lock_fd = TRUE,
                                      ![c].pc = "serial_open"]
       ELSE /\ host' = [host EXCEPT !.lock_file = TRUE]
            /\ conns' = [conns EXCEPT ![c].retry_count = @ + 1,
                                      ![c].waited = TRUE]
    /\ UNCHANGED <<sessVars, opsVars, cmdVars, fnVars, rdVars>>

\* serial.Serial(...): the port is open, or SerialException, on which the
\* lock is released, the lock file removed and RSPException raised
Usb_SerialOpen(c) ==
    /\ conns[c].pc = "serial_open"
    /\ \/ /\ conns' = [conns EXCEPT ![c].ser = "open", ![c].pc = "construct"]
          /\ UNCHANGED host
       \/ /\ conns' = [conns EXCEPT
                         ![c] = ConnRaise([@ EXCEPT !.lock_fd = FALSE],
                                          "RSPException")]
          /\ host' = [host EXCEPT
                        !.holder = 0,
                        !.lock_file = IF host.platform = "msvcrt"
                                      THEN FALSE ELSE @]
    /\ UNCHANGED <<sessVars, opsVars, cmdVars, fnVars, rdVars>>

\* the rest of __init__: _drain_input, _start_reader_thread and
\* _verify_support, which exchanges qSupported and may raise
Conn_Construct(c) ==
    /\ conns[c].pc = "construct"
    /\ \/ conns' = [conns EXCEPT ![c].reader = "running",
                                 ![c].thread = TRUE,
                                 ![c].exchanged = TRUE, ![c].pc = "ready"]
       \/ \E kind \in {"NotSupported", "Io"} :
             conns' = [conns EXCEPT
                         ![c] = ConnRaise([@ EXCEPT !.reader = "running",
                                                    !.thread = TRUE,
                                                    !.exchanged = TRUE],
                                          kind)]
    /\ UNCHANGED <<host, sessVars, opsVars, cmdVars, fnVars, rdVars>>

\* the peer closes the TCP connection
Conn_PeerClose(c) ==
    /\ conns[c].pc = "ready"
    /\ conns[c].is_tcp
    /\ conns[c].peer = "up"
    /\ conns' = [conns EXCEPT ![c].peer = "closed"]
    /\ UNCHANGED <<host, sessVars, opsVars, cmdVars, fnVars, rdVars>>

\* a turn of the reader's loop that finds the stop event set, or whose
\* read returns b'' on the socket the peer has closed
Reader_Turn(c) ==
    /\ conns[c].reader = "running"
    /\ \/ conns[c].stop
       \/ conns[c].peer = "closed" /\ conns[c].eof_reads < MaxEofReads
    /\ conns' = [conns EXCEPT
                   ![c].reader = ReaderLoopNext(conns[c].stop, "eof"),
                   ![c].eof_reads = IF conns[c].stop THEN @ ELSE @ + 1]
    /\ UNCHANGED <<host, sessVars, opsVars, cmdVars, fnVars, rdVars>>

\* close() is called, for the first time or again:
\* if self._reader_thread is not None: self._reader_stop.set()
Close_Call(c) ==
    /\ conns[c].pc \in {"ready", "closed", "close_raised"}
    /\ conns[c].calls < MaxCloses
    /\ LET r == [conns[c] EXCEPT
                   !.calls = @ + 1,
                   !.result = "none",
                   !.again = <<>>,
                   !.left_as = IF conns[c].calls = 0 THEN <<>>
                               ELSE ClosedState(c)]
       IN  conns' = [conns EXCEPT
                       ![c] = IF r.thread
                              THEN [Stepped(r, "stop") EXCEPT
                                      !.stop = TRUE, !.pc = "c_join"]
                              ELSE [r EXCEPT !.pc = "c_transport"]]
    /\ UNCHANGED <<host, sessVars, opsVars, cmdVars, fnVars, rdVars>>

\* close(): self._reader_thread.join(timeout=0.1);
\* self._reader_thread = None
Close_Join(c) ==
    /\ conns[c].pc = "c_join"
    /\ conns' = [conns EXCEPT
                   ![c] = [Stepped(@, "join") EXCEPT !.thread = FALSE,
                                                     !.pc = "c_transport"]]
    /\ UNCHANGED <<host, sessVars, opsVars, cmdVars, fnVars, rdVars>>

\* close(): if self.sock: self.sock.close() with its errors swallowed,
\* self.sock = None; if self.ser and self.ser.is_open: self.ser.close(),
\* whose exception leaves close() and the port open
Close_Transport(c) ==
    /\ conns[c].pc = "c_transport"
    /\ IF conns[c].is_tcp
       THEN conns' = [conns EXCEPT
                        ![c] = IF @.sock = "open"
                               THEN [Stepped(@, "transport") EXCEPT
                                       !.sock = "closed", !.pc = "c_unlock"]
                               ELSE [@ EXCEPT !.pc = "c_unlock"]]
       ELSE IF conns[c].ser = "open"
       THEN \/ conns' = [conns EXCEPT
                           ![c] = [Stepped(@, "transport") EXCEPT
                                     !.ser = "closed", !.pc = "c_unlock"]]
            \/ conns' = [conns EXCEPT ![c].pc = "close_raised",
                                      ![c].result = "exception"]
       ELSE conns' = [conns EXCEPT ![c].pc = "c_unlock"]
    /\ UNCHANGED <<host, sessVars, opsVars, cmdVars, fnVars, rdVars>>

\* close(): the lock is released and its descriptor closed when there is
\* one
Close_Unlock(c) ==
    /\ conns[c].pc = "c_unlock"
    /\ IF conns[c].lock_fd
       THEN /\ host' = [host EXCEPT !.holder = 0]
            /\ conns' = [conns EXCEPT
                           ![c] = [Stepped(@, "unlock") EXCEPT
                                     !.lock_fd = FALSE,
                                     !.pc = IF host.platform = "msvcrt"
                                            THEN "c_unlink" ELSE "closed"]]
       ELSE /\ conns' = [conns EXCEPT ![c].pc = "closed"]
            /\ UNCHANGED host
    /\ UNCHANGED <<sessVars, opsVars, cmdVars, fnVars, rdVars>>

\* close(): os.unlink(self._lock_file), which fails, unnoticed, while
\* another connection holds the file open
Close_Unlink(c) ==
    /\ conns[c].pc = "c_unlink"
    /\ host' = [host EXCEPT !.lock_file = IF host.holder = 0 THEN FALSE ELSE @]
    /\ conns' = [conns EXCEPT ![c] = [Stepped(@, "unlink") EXCEPT
                                       !.pc = "closed"]]
    /\ UNCHANGED <<sessVars, opsVars, cmdVars, fnVars, rdVars>>

NoHost ==
    [platform |-> "none", env |-> <<>>, found |-> [raise |-> FALSE, port |-> <<>>],
     holder |-> 0, lock_file |-> FALSE]

\* no connection is being made
ConnQuiet == host = NoHost /\ conns = [c \in Conns |-> NoConn]

\* two connections are made on a host; the second is to the serial path
ConnInit ==
    \E platform \in {"fcntl", "msvcrt"}, env \in EnvPorts,
       found \in Discoveries, arg \in PortArgs :
        /\ host = [NoHost EXCEPT !.platform = platform, !.env = env,
                                 !.found = found]
        /\ conns = [c \in Conns |->
                      [NoConn EXCEPT !.pc = "new",
                                     !.arg = IF c = 1 THEN arg
                                             ELSE sSerialPath]]

ConnNext ==
    \E c \in Conns :
        \/ Conn_Init(c) \/ Conn_ConnectTcp(c) \/ Usb_Begin(c)
        \/ Usb_FlockNb(c) \/ Usb_FlockWait(c) \/ Win_TryLock(c)
        \/ Usb_SerialOpen(c) \/ Conn_Construct(c) \/ Conn_PeerClose(c)
        \/ Reader_Turn(c) \/ Close_Call(c) \/ Close_Join(c)
        \/ Close_Transport(c) \/ Close_Unlock(c) \/ Close_Unlink(c)


(***************************************************************************)
(* Functions of SPXConnection that keep no state: the chunk limits of      *)
(* _vfile_pwrite and _vfile_pread, and binary escaping.                    *)
(***************************************************************************)
cRBrace == 125     \* ord('}')
cStar == 42        \* ord('*')

MaxData == 3       \* bytes of a buffer handed to _vfile_pwrite
MaxEsc == 3        \* bytes of a string handed to the escaping functions

\* "vFile:pwrite:" and "vFile:pread:"
sPwrite == <<118, 70, 105, 108, 101, 58, 112, 119, 114, 105, 116, 101, 58>>
sPread == <<118, 70, 105, 108, 101, 58, 112, 114, 101, 97, 100, 58>>

\* b ^ 0x20 on a byte
Xor20(b) == IF (b \div 32) % 2 = 1 THEN b - 32 ELSE b + 32

\* an encoder that does not flip bit 5 of the escaped byte
RECURSIVE EncodeBinaryEscaped_NoFlip(_)
EncodeBinaryEscaped_NoFlip(data) ==
    IF data = <<>> THEN <<>>
    ELSE (IF Head(data) \in {cRBrace, cHash, cDollar, cStar}
          THEN <<cRBrace, Head(data)>> ELSE <<Head(data)>>)
         \o EncodeBinaryEscaped_NoFlip(Tail(data))

\* _encode_binary_escaped
RECURSIVE EncodeBinaryEscaped(_)
EncodeBinaryEscaped(data) ==
    IF data = <<>> THEN <<>>
    ELSE (IF Head(data) \in {cRBrace, cHash, cDollar, cStar}
          THEN <<cRBrace, Xor20(Head(data))>> ELSE <<Head(data)>>)
         \o EncodeBinaryEscaped(Tail(data))

\* _decode_binary_escaped: a '}' takes the next byte with bit 5 flipped; a
\* '}' at the end stops the decoding
RECURSIVE DecodeBinaryEscaped(_)
DecodeBinaryEscaped(data) ==
    IF data = <<>> THEN <<>>
    ELSE IF Head(data) = cRBrace
    THEN IF Len(data) >= 2
         THEN <<Xor20(data[2])>> \o DecodeBinaryEscaped(SubSeq(data, 3, Len(data)))
         ELSE <<>>
    ELSE <<Head(data)>> \o DecodeBinaryEscaped(Tail(data))

\* _vfile_pwrite: the bytes of data that go into the packet
PwriteData(data, mps) ==
    IF Len(data) > MaxWriteChunk(mps)
    THEN Truncate(data, MaxWriteChunk(mps)) ELSE data

\* _vfile_pwrite: the packet
PwritePacket(fd, data, mps) ==
    sPwrite \o FormatHex(fd) \o <<cComma>> \o Hexlify(PwriteData(data, mps))

\* _vfile_pread: the count that goes into the packet
PreadCount(count, mps) ==
    IF count > MaxReadCount(mps) THEN MaxReadCount(mps) ELSE count

\* _vfile_pread: the packet
PreadPacket(fd, count, mps) ==
    sPread \o FormatHex(fd) \o <<cComma>> \o FormatHex(PreadCount(count, mps))

\* the packet sizes a device can advertise in PacketSize=<hex>
FnPacketSizes == {0, 16, 24, 25, 26, 27, 29, 31}

\* file descriptors the device can return to vFile:open
FnFds == {3, 268435456}

\* the bytes of the buffers
FnBytes == {65, 66}

\* the bytes of the strings to escape: '}', '#', 'a', ']', 'A'
EscBytes == {cRBrace, cHash, 97, 93, 65}

RECURSIVE SeqsOver(_, _)
SeqsOver(S, n) ==
    IF n = 0 THEN {<<>>}
    ELSE SeqsOver(S, n - 1)
         \cup {Append(s, b) : s \in {t \in SeqsOver(S, n - 1) : Len(t) = n - 1},
                              b \in S}

NoFn ==
    [f |-> "none", mps |-> 0, fd |-> 0, data |-> <<>>, count |-> 0,
     sent |-> <<>>, packet |-> <<>>, asked |-> 0, enc |-> <<>>,
     dec |-> <<>>, encdec |-> <<>>, decenc |-> <<>>, done |-> FALSE]

Fn_Pwrite ==
    /\ fn.f = "pwrite"
    /\ ~fn.done
    /\ fn' = [fn EXCEPT !.sent = PwriteData(fn.data, fn.mps),
                        !.packet = PwritePacket(fn.fd, fn.data, fn.mps),
                        !.done = TRUE]
    /\ UNCHANGED <<sessVars, opsVars, cmdVars, connVars, rdVars>>

Fn_Pread ==
    /\ fn.f = "pread"
    /\ ~fn.done
    /\ fn' = [fn EXCEPT !.asked = PreadCount(fn.count, fn.mps),
                        !.packet = PreadPacket(fn.fd, fn.count, fn.mps),
                        !.done = TRUE]
    /\ UNCHANGED <<sessVars, opsVars, cmdVars, connVars, rdVars>>

Fn_Escape ==
    /\ fn.f = "escape"
    /\ ~fn.done
    /\ fn' = [fn EXCEPT
                !.enc = EncodeBinaryEscaped(fn.data),
                !.dec = DecodeBinaryEscaped(fn.data),
                !.encdec = EncodeBinaryEscaped(DecodeBinaryEscaped(fn.data)),
                !.decenc = DecodeBinaryEscaped(EncodeBinaryEscaped(fn.data)),
                !.done = TRUE]
    /\ UNCHANGED <<sessVars, opsVars, cmdVars, connVars, rdVars>>

\* no function is being called
FnQuiet == fn = NoFn

FnInit ==
    \/ \E mps \in FnPacketSizes, fd \in FnFds,
          data \in SeqsOver(FnBytes, MaxData) :
          fn = [NoFn EXCEPT !.f = "pwrite", !.mps = mps, !.fd = fd,
                            !.data = data]
    \/ \E mps \in FnPacketSizes, fd \in FnFds, count \in 0..MaxData :
          fn = [NoFn EXCEPT !.f = "pread", !.mps = mps, !.fd = fd,
                            !.count = count]
    \/ \E x \in SeqsOver(EscBytes, MaxEsc) :
          fn = [NoFn EXCEPT !.f = "escape", !.data = x]

FnNext == Fn_Pwrite \/ Fn_Pread \/ Fn_Escape


(***************************************************************************)
(* The reader on a stream that arrives in pieces.  The device sends Ack    *)
(* and Nak bytes and frames; the bytes reach the host a few at a time, and *)
(* a read that finds none returns b'' after the read timeout.  Every byte  *)
(* carries where the device put it: "out" of any frame, the "start" of a   *)
(* frame, or "in" a frame.                                                 *)
(*   first    _read_packet_from_stream: self._read(1) of a first character *)
(*   data     self._read(1) of a payload byte                              *)
(*   ck       self._read(2): the checksum                                  *)
(*   verify   the comparison and the write of '+' or '-'                   *)
(*   deliver  _reader_thread_func: the classification of the packet        *)
(***************************************************************************)
MaxMsgs == 2      \* what the device sends: Ack, Nak and frames

\* the payloads of the frames the device sends: "OK", "", "O", the
\* O-packet "O41", "Ozz", "F-1,2"
RdPayloads ==
    {sOK, <<>>, <<cO>>, <<cO, 52, 49>>, <<cO, 122, 122>>, ErrF(2)}

Tagged(bytes, t) == [i \in 1..Len(bytes) |-> [b |-> bytes[i], t |-> t]]

\* the bytes of a frame, and of an Ack or Nak, as the device sends them
TaggedFrame(p) ==
    <<[b |-> cDollar, t |-> "start"]>> \o Tagged(Tail(Frame(p)), "in")

RdMessages ==
    {Tagged(ACK, "out"), Tagged(NAK, "out")}
    \cup {TaggedFrame(p) : p \in RdPayloads}

RECURSIVE Flatten(_)
Flatten(ss) == IF ss = <<>> THEN <<>> ELSE Head(ss) \o Flatten(Tail(ss))

BytesOf(w) == [i \in 1..Len(w) |-> w[i].b]

NoRd ==
    [stream |-> <<>>, wire |-> <<>>, pc |-> "none", data |-> <<>>,
     checksum_hex |-> <<>>, packet |-> <<>>, framed |-> FALSE,
     queue |-> <<>>, sink |-> <<>>, wrote |-> <<>>, acked |-> <<>>,
     handled |-> <<>>, stray |-> FALSE, cut |-> FALSE]

\* the next bytes of the stream reach the host
Rd_Arrive ==
    /\ rd.pc # "none"
    /\ rd.stream # <<>>
    /\ \E k \in 1..Len(rd.stream) :
          rd' = [rd EXCEPT !.wire = @ \o SubSeq(rd.stream, 1, k),
                           !.stream = SubSeq(rd.stream, k + 1, Len(rd.stream))]
    /\ UNCHANGED <<sessVars, opsVars, cmdVars, connVars, fnVars>>

\* self._read returns b'' (the read timeout), or one byte where two were
\* asked: _read_packet_from_stream returns None and is called again
Rd_Timeout ==
    /\ rd.pc \in {"first", "data", "ck"}
    /\ rd.wire = <<>>
    /\ rd' = [rd EXCEPT !.pc = "first", !.data = <<>>,
                        !.cut = @ \/ rd.pc # "first"]
    /\ UNCHANGED <<sessVars, opsVars, cmdVars, connVars, fnVars>>

\* the first character: '+' and '-' are returned, '$' opens a frame,
\* anything else is skipped
Rd_First ==
    /\ rd.pc = "first"
    /\ rd.wire # <<>>
    /\ LET h == Head(rd.wire)
           r == [rd EXCEPT !.wire = Tail(@)]
       IN  rd' = IF h.b \in {cPlus, cMinus}
                 THEN [r EXCEPT !.packet = <<h.b>>, !.framed = FALSE,
                                !.stray = @ \/ h.t # "out",
                                !.pc = "deliver"]
                 ELSE IF h.b = cDollar
                 THEN [r EXCEPT !.data = <<>>, !.pc = "data",
                                !.stray = @ \/ h.t # "start"]
                 ELSE r
    /\ UNCHANGED <<sessVars, opsVars, cmdVars, connVars, fnVars>>

\* a byte of the payload, or '#'
Rd_Data ==
    /\ rd.pc = "data"
    /\ rd.wire # <<>>
    /\ rd' = IF Head(rd.wire).b = cHash
             THEN [rd EXCEPT !.wire = Tail(@), !.pc = "ck"]
             ELSE [rd EXCEPT !.wire = Tail(@),
                             !.data = Append(@, Head(rd.wire).b)]
    /\ UNCHANGED <<sessVars, opsVars, cmdVars, connVars, fnVars>>

\* self._read(2): two bytes, or the one byte there is (return None)
Rd_Cksum ==
    /\ rd.pc = "ck"
    /\ rd.wire # <<>>
    /\ rd' = IF Len(rd.wire) >= 2
             THEN [rd EXCEPT !.checksum_hex = BytesOf(SubSeq(rd.wire, 1, 2)),
                             !.wire = SubSeq(@, 3, Len(@)),
                             !.pc = "verify"]
             ELSE [rd EXCEPT !.wire = <<>>, !.data = <<>>, !.cut = TRUE,
                             !.pc = "first"]
    /\ UNCHANGED <<sessVars, opsVars, cmdVars, connVars, fnVars>>

\* the checksum is compared and '+' or '-' is written; int() raises on a
\* checksum that is no hex, into the except clause of the thread function
Rd_Verify ==
    /\ rd.pc = "verify"
    /\ rd' = IF ~ParseHexInt(rd.checksum_hex).ok
             THEN [rd EXCEPT !.data = <<>>, !.checksum_hex = <<>>,
                             !.pc = "first"]
             ELSE LET v == ReaderVerdict(rd.data, rd.checksum_hex) IN
                  [rd EXCEPT
                     !.wrote = Append(@, v),
                     !.acked = IF v = cPlus THEN Append(@, rd.data) ELSE @,
                     !.packet = IF v = cPlus THEN rd.data ELSE <<>>,
                     !.framed = (v = cPlus),
                     !.data = <<>>, !.checksum_hex = <<>>,
                     !.pc = IF AfterVerdict(v) = "deliver" THEN "deliver"
                            ELSE "first"]
    /\ UNCHANGED <<sessVars, opsVars, cmdVars, connVars, fnVars>>

\* where _reader_thread_func sends the packet returned: an O-packet to the
\* sink when it decodes to text and nowhere when it does not, anything
\* else to the queue
Route(packet) ==
    IF IsOPacket(packet)
    THEN IF DecodeOPacket(packet) # <<>> THEN "sink" ELSE "nowhere"
    ELSE "queue"

Rd_Deliver ==
    /\ rd.pc = "deliver"
    /\ LET to == Route(rd.packet) IN
       rd' = [rd EXCEPT
                !.queue = IF to = "queue" THEN Append(@, rd.packet) ELSE @,
                !.sink = IF to = "sink"
                         THEN Append(@, DecodeOPacket(rd.packet)) ELSE @,
                !.handled = IF rd.framed
                            THEN Append(@, [p |-> rd.packet, to |-> to])
                            ELSE @,
                !.packet = <<>>, !.framed = FALSE, !.pc = "first"]
    /\ UNCHANGED <<sessVars, opsVars, cmdVars, connVars, fnVars>>

\* no stream is being read
RdQuiet == rd = NoRd

\* the reader is at its first read and the device has up to MaxMsgs
\* things to send
RdInit ==
    \E ms \in SeqsOver(RdMessages, MaxMsgs) :
        rd = [NoRd EXCEPT !.stream = Flatten(ms), !.pc = "first"]

RdNext ==
    \/ Rd_Arrive \/ Rd_Timeout \/ Rd_First \/ Rd_Data \/ Rd_Cksum
    \/ Rd_Verify \/ Rd_Deliver

(***************************************************************************)
(* The specifications.                                                     *)
(***************************************************************************)
\* no operation is running; the packet size is the default
OpsQuiet ==
    /\ max_packet_size = 1024
    /\ call = NoCall
    /\ local_file = <<>>
    /\ remote = NoRemote
    /\ olog = <<>>
    /\ ncalls = 0

\* the connection after the negotiation of the packet size
OpsInit ==
    /\ max_packet_size \in PacketSizes
    /\ call = NoCall
    /\ local_file = <<>>
    /\ remote = NoRemote
    /\ olog = <<>>
    /\ ncalls = 0

OpsNext ==
    \/ O_Begin
    \/ Ls_Opendir \/ Ls_Readdir \/ Ls_Closedir
    \/ Get_Size \/ Put_Getsize \/ File_Open \/ File_LocalOpen
    \/ Get_Pread \/ Put_Pwrite \/ File_Close

vars == <<sessVars, opsVars, cmdVars, connVars, fnVars, rdVars>>

Init == SessInit /\ OpsQuiet /\ CmdQuiet /\ ConnQuiet /\ FnQuiet /\ RdQuiet

Next == SessNext

Spec == Init /\ [][Next]_vars

InitOps == SessInit /\ OpsInit /\ CmdQuiet /\ ConnQuiet /\ FnQuiet /\ RdQuiet

SpecOps == InitOps /\ [][OpsNext]_vars

InitCmd == SessInit /\ OpsQuiet /\ CmdInit /\ ConnQuiet /\ FnQuiet /\ RdQuiet

SpecCmd == InitCmd /\ [][CmdNext]_vars

InitConn == SessInit /\ OpsQuiet /\ CmdQuiet /\ ConnInit /\ FnQuiet /\ RdQuiet

SpecConn == InitConn /\ [][ConnNext]_vars

InitFn == SessInit /\ OpsQuiet /\ CmdQuiet /\ ConnQuiet /\ FnInit /\ RdQuiet

SpecFn == InitFn /\ [][FnNext]_vars

InitRd ==
    SessInit /\ OpsQuiet /\ CmdQuiet /\ ConnQuiet /\ FnQuiet /\ RdInit

SpecRd == InitRd /\ [][RdNext]_vars

(***************************************************************************)
(* Properties of the session layer.                                        *)
(***************************************************************************)
RECURSIVE IsSubseq(_, _)
IsSubseq(s, t) ==
    IF s = <<>> THEN TRUE
    ELSE IF t = <<>> THEN FALSE
    ELSE IF Head(s) = Head(t) THEN IsSubseq(Tail(s), Tail(t))
    ELSE IsSubseq(s, Tail(t))

C2_VerdictWrittenForEveryFrame ==
    /\ hist.frame.seen =>
          hist.frame.wrote = (IF hist.frame.match THEN cPlus ELSE cMinus)
    /\ ~hist.badenq
    /\ rpc = "deliver" /\ hist.frame.seen => hist.frame.wrote = cPlus

\* C3: once close() has returned the transport is closed and neither the
\* reader nor the client moves a byte on it.
C3_NoTransferAfterClose ==
    /\ ~hist.xfer_after
    /\ closing = "returned" => transport = "closed"

\* close() has returned after a join that timed out, and the reader, still
\* running, has made a transport call, which failed
C3_Witness ==
    /\ closing = "returned"
    /\ ~hist.joined
    /\ hist.try_after

\* C4: between the return of the constructor and the call of close() the
\* reader thread is running.
C4_ReaderRunsWhileLive == closing = "no" => rpc # "exited"

\* the reader has taken an exception on a live connection and is back at
\* its loop
C4_Witness ==
    /\ closing = "no"
    /\ hist.rexc
    /\ rpc = "loop"

\* C5, as stated: the sink receives O-packet chunks in the order the device
\* sent them; no O-packet chunk is in the queue, where it would be taken as
\* an Ack/Nak or returned as a response; the response returned to the
\* caller is a response payload as the device sent it.
C5_OPacketsInOrderAndApart ==
    /\ IsSubseq(sink, dev_osent)
    /\ \A i \in 1..Len(rq) : ~(rq[i][1] = cO /\ Len(rq[i]) > 2)
    /\ hist.lastret # <<>> => hist.lastret \in dev_rsent

Requests(cmd) == SelectSeq(olog, LAMBDA r : r.cmd = cmd)

\* the descriptors of the close requests of the call, in order
ClosedFds == [i \in 1..Len(Requests("close")) |-> Requests("close")[i].fd]

\* C7: in get and put at most one vFile:close is sent, for the descriptor
\* that vFile:open returned and after it; when the call has returned or
\* raised there is exactly one if open returned a descriptor and none if it
\* did not.
C7_OpenedFileClosedOnce ==
    call.op \in {"get", "put"} =>
        /\ Len(remote.fds) <= 1
        /\ IsSubseq(ClosedFds, remote.fds)
        /\ call.result # "none" => ClosedFds = remote.fds

\* a get has raised after a pread that failed, and has closed the file
C7_Witness ==
    /\ call.op = "get"
    /\ call.result = "raised"
    /\ Len(Requests("pread")) > 0
    /\ Len(remote.fds) = 1
    /\ ClosedFds = remote.fds
    /\ olog[Len(olog) - 1].cmd = "pread"

\* C8, as stated: in put the cursor into the local file advances by the
\* number of bytes the device accepted, and when put returns successfully
\* the bytes the device accepted are the bytes of the local file.
C8_PutCursorFollowsAccepted ==
    call.op = "put" =>
        /\ call.pc \in {"pwrite", "close"} /\ ~call.exc
              => call.f_pos = call.transferred
        /\ call.result = "ok" => remote.file = local_file

\* opendir has been answered "OK"
OpendirSucceeded ==
    \E i \in 1..Len(olog) : olog[i].cmd = "opendir" /\ DirOk(olog[i].x)

\* request i is a readdir that was answered with the empty response
EmptyReaddir(i) ==
    olog[i].cmd = "readdir" /\ olog[i].x.ok /\ olog[i].x.resp = <<>>

\* C9: in ls at most one closedir is sent, after an opendir that succeeded
\* and as the last request; when ls has returned or raised there is exactly
\* one if opendir succeeded and none if it did not; no readdir is sent
\* after a readdir that was answered with the empty response, and ls
\* returns only after one.
C9_ClosedirOnceAfterOpendir ==
    call.op = "ls" =>
        /\ Len(Requests("closedir")) <= 1
        /\ Len(Requests("closedir")) = 1 => OpendirSucceeded
        /\ call.result # "none" =>
              Len(Requests("closedir")) = (IF OpendirSucceeded THEN 1 ELSE 0)
        /\ \A i \in 1..Len(olog) : \A j \in (i + 1)..Len(olog) :
              /\ EmptyReaddir(i) => olog[j].cmd # "readdir"
              /\ olog[i].cmd # "closedir"
        /\ call.result = "ok" =>
              /\ Len(olog) >= 3
              /\ EmptyReaddir(Len(olog) - 1)

\* an ls has raised after a readdir that failed, and has sent closedir
C9_Witness ==
    /\ call.op = "ls"
    /\ call.result = "raised"
    /\ Len(olog) >= 3
    /\ olog[Len(olog) - 1].cmd = "readdir"
    /\ ~EmptyReaddir(Len(olog) - 1)
    /\ olog[Len(olog)].cmd = "closedir"

\* C10: the list of ls holds one tuple (kind, name, size) for every entry
\* the device answered with "FOK,...", in order, the name and the size as
\* the device holds them; ls returns it when the directory is exhausted.
C10_LsReturnsEntriesInOrder ==
    call.op = "ls" =>
        /\ call.entries =
              [i \in 1..Len(remote.sent) |->
                  <<<<remote.sent[i].kind>>, remote.sent[i].name,
                    remote.sent[i].size>>]
        /\ call.result = "ok" => remote.dir = <<>>

\* ls has returned two different entries
C10_Witness ==
    /\ call.op = "ls"
    /\ call.result = "ok"
    /\ Len(call.entries) = 2
    /\ call.entries[1] # call.entries[2]

(***************************************************************************)
(* Properties of the command-line layer.                                   *)
(***************************************************************************)
\* C11: the first packet written is qSupported, after the transport is set
\* up and drained; when the response to it lacks "vSpectranext+" the
\* constructor raises RSPNotSupportedError; the constructor has returned,
\* and a further packet is written, only after a response with the token.
C11_SupportVerifiedAtConstruction ==
    /\ cli.frames # <<>> => cli.conn # "none" /\ cli.drained
    /\ cli.packets # <<>> => cli.packets[1] = "qSupported"
    /\ cli.qseen /\ ~Contains(cli.qresp, sVSpectranext) =>
          /\ cli.result = "NotSupported"
          /\ ~cli.constructed
          /\ cli.pc \in {"done", "exited"}
    /\ cli.constructed \/ Len(cli.packets) > 1 =>
          cli.qseen /\ Contains(cli.qresp, sVSpectranext)

\* the device answered qSupported with a packet size and without the token
C11_Witness ==
    /\ cli.qseen
    /\ cli.qresp = sPacketSize \o <<52, 48, 48>>
    /\ cli.result = "NotSupported"

\* the parts "PacketSize=<hex>" of a response, as the numbers they carry
CarriedPacketSizes(response) ==
    LET parts == SplitOn(response, cSemi)
        hexOf(i) == SubSeq(parts[i], Len(sPacketSize) + 1, Len(parts[i]))
    IN  {HexMagnitude(hexOf(i)) :
            i \in {j \in 1..Len(parts) :
                      /\ StartsWith(parts[j], sPacketSize)
                      /\ hexOf(j) # <<>>
                      /\ AllHex(hexOf(j))}}

\* C12: when the constructor has returned, max_packet_size is the number
\* of the part "PacketSize=<hex>" of the response to qSupported, read as
\* hexadecimal (1024 for "PacketSize=400"), and qSupported is the one
\* packet the constructor has sent.
C12_PacketSizeFromQSupported ==
    /\ cli.constructed =>
          \A n \in CarriedPacketSizes(cli.qresp) : max_packet_size = n
    /\ cli.constructed
          /\ cli.qresp = sPacketSize \o <<52, 48, 48, cSemi>> \o sVSpectranext
          => max_packet_size = 1024
    /\ ~cli.constructed \/ cli.pc = "command" =>
          cli.packets \in {<<>>, <<"qSupported">>}

\* the constructor has returned with the packet size of "PacketSize=1b"
C12_Witness ==
    /\ cli.pc = "command"
    /\ cli.qresp = sVSpectranext \o <<cSemi>> \o sPacketSize \o <<49, 98>>
    /\ max_packet_size = 27
    /\ cli.packets = <<"qSupported">>

\* C13: once the constructor has returned, no step lowers max_packet_size.
C13_PacketSizeNotLowered ==
    [][cli.constructed => max_packet_size' >= max_packet_size]_vars

\* an operation has returned on a connection whose packet size was
\* negotiated
C13_Witness ==
    /\ cli.constructed
    /\ max_packet_size = 27
    /\ Len(cli.packets) = 2
    /\ cli.result = "ok"
    /\ cli.pc = "done"

\* C14: one send writes the frame of its packet at most three times, and
\* always the same frame; when the first two transmissions are answered
\* Nak and the third Ack the send succeeds with three transmissions; when
\* all three are answered Nak the send fails with RSPIOError after three.
C14_NakRetransmittedUpToThree ==
    /\ Len(cli.frames) <= 3
    /\ \A i \in 1..Len(cli.frames) : cli.frames[i] = Frame(PacketOf(cli.op))
    /\ cli.outcomes = <<"nak", "nak", "ack">> =>
          cli.sent = "acked" /\ Len(cli.frames) = 3
    /\ cli.outcomes = <<"nak", "nak", "nak">> =>
          cli.sent = "failed" /\ Len(cli.frames) = 3 /\ cli.result = "Io"
    /\ cli.sent = "acked" =>
          /\ Len(cli.frames) = Len(cli.outcomes)
          /\ cli.outcomes[Len(cli.outcomes)] = "ack"
    /\ cli.sent = "failed" => Len(cli.frames) = 3

\* qSupported was answered Nak, Nak, Ack
C14_Witness ==
    /\ cli.op = "qSupported"
    /\ cli.outcomes = <<"nak", "nak", "ack">>
    /\ cli.sent = "acked"
    /\ Len(cli.frames) = 3

\* C15: every failure of a Connection operation reaches the caller as one
\* of the six error kinds (NotSupported, Io, NotFound, PermissionDenied,
\* Exists, Invalid), whatever the device answers, malformed responses
\* included.  (SystemExit is the Ctrl-C of the command function, not a
\* failure of an operation.)
C15_FailuresAreOfTheSixKinds ==
    cli.result \in ErrorKinds \cup {"none", "ok", "SystemExit"}

\* the error kind of an errno
ErrnoKind(errno) ==
    CASE errno = 2 -> "NotFound"
      [] errno = 5 -> "Io"
      [] errno = 13 -> "PermissionDenied"
      [] errno = 17 -> "Exists"
      [] errno = 22 -> "Invalid"
      [] OTHER -> "Io"

\* the prefix of the error form of an operation: "F-1," for the vFile
\* operations, "E" for the vSpectranext directory operations, none for
\* reboot and autoboot
ErrorPrefix(op) ==
    IF op \in NumberOps \cup F0Ops \cup {"pread", "exists"} THEN sFminus1
    ELSE IF op \in OkOps \cup {"readdir"} THEN sE
    ELSE <<>>

IsErrno(s) == s # <<>> /\ \A i \in 1..Len(s) : s[i] \in 48..57

\* the response is the error form of the operation, with a numeric errno
IsErrorForm(op, response) ==
    /\ ErrorPrefix(op) # <<>>
    /\ StartsWith(response, ErrorPrefix(op))
    /\ IsErrno(SubSeq(response, Len(ErrorPrefix(op)) + 1, Len(response)))

ErrnoOf(op, response) ==
    DecMagnitude(SubSeq(response, Len(ErrorPrefix(op)) + 1, Len(response)))

IsHex(s) == \A i \in 1..Len(s) : IsHexDigit(s[i])

\* the response is the success form of the operation
IsSuccessForm(op, response) ==
    CASE op \in NumberOps ->
            /\ Len(response) >= 2
            /\ response[1] = cF
            /\ IsHex(Tail(response))
      [] op \in F0Ops -> response = sF0
      [] op = "exists" ->
            response \in {<<cF, cComma, 49>>, <<cF, cComma, 48>>}
      [] op = "pread" -> Len(response) % 2 = 0 /\ IsHex(response)
      [] op \in OkOps \cup PlainOkOps -> response = sOK
      [] OTHER ->   \* readdir: end of directory, or FOK,<hex>,<type>,<hex>
            \/ response = <<>>
            \/ /\ StartsWith(response, sFOK)
               /\ LET parts == SplitOn(SubSeq(response, 5, Len(response)),
                                       cComma)
                  IN  /\ Len(parts) = 3
                      /\ parts[1] # <<>> /\ Len(parts[1]) % 2 = 0
                      /\ IsHex(parts[1])
                      /\ parts[3] # <<>> /\ IsHex(parts[3])

\* what an L4 operation is to make of a response
ExpectedOutcome(op, response) ==
    IF IsErrorForm(op, response) THEN ErrnoKind(ErrnoOf(op, response))
    ELSE IF IsSuccessForm(op, response) THEN "ok"
    ELSE "Io"

\* an L4 operation has handled the response cli.response
OpHandled ==
    /\ cli.after = "op"
    /\ cli.sent = "acked"
    /\ cli.pc \notin {"write", "ackwait", "resp"}
    /\ ~cli.timed_out
    /\ cli.result # "SystemExit"

\* C16: an L4 operation translates a response E<errno> or F-1,<errno> to
\* the error kind of the errno (2 NotFound, 5 Io, 13 PermissionDenied,
\* 17 Exists, 22 Invalid, any other value Io), and a response that is
\* neither its success form nor an error form to Io.
C16_ResponseTranslatedByErrno ==
    OpHandled =>
        LET expected == ExpectedOutcome(cli.op, cli.response)
        IN  IF expected = "ok" THEN cli.result \in {"none", "ok"}
            ELSE cli.result = expected

\* the translation holds wherever the operation raises one of the six kinds
C16_HoldsBarValueError ==
    OpHandled /\ cli.result # "ValueError" => C16_ResponseTranslatedByErrno

\* C17: in follow mode (exec -f) the wait for the response to qRcmd has no
\* timeout: however long the device takes to send OK after the Ack, the
\* client does not fail with a response timeout.
C17_FollowWaitsWithoutTimeout ==
    cli.cmd = "exec" /\ cli.follow_enabled /\ cli.op = "qRcmd" => ~cli.timed_out

\* C18: in follow mode every O-packet chunk the device sends after the
\* qRcmd packet, the chunks between the Ack and the OK response included,
\* is printed by the follow sink to standard output, once and in arrival
\* order, and none goes to the "[LOG] " diagnostic sink.  (Stated while the
\* command has succeeded and the follow loop has not been left.)
C18_FollowedChunksOnStdout ==
    /\ cli.cmd = "exec"
    /\ cli.follow_enabled
    /\ cli.response = sOK
    /\ cli.result = "none"
    /\ ~cli.left_loop
    => /\ cli.stdout = cli.followed
       /\ \A i \in 1..Len(cli.stderr), j \in 1..Len(cli.followed) :
             cli.stderr[i] # sLOG \o cli.followed[j]

\* the time limit of the follow loop has expired
LimitExpired == 
    cli.follow_seconds # pyNone
    /\ cli.ticks >= cli.follow_seconds * TicksPerSecond

\* C19: the follow loop of exec and autoboot ends when the cancellation
\* flag is set or follow_seconds, if given, has elapsed, and for no other
\* reason; once either holds the loop is left within one poll tick of
\* 100 ms, and the connection is then closed.
C19_FollowLoopEndsOnFlagOrLimit ==
    /\ cli.left_loop => cli.should_stop \/ LimitExpired
    /\ cli.left_loop => cli.pc \in {"close", "done", "exited"}
    /\ cli.left_loop /\ cli.pc \in {"done", "exited"} => cli.conn = "closed"
    \* the loop sleeps only when neither held at its head
    /\ cli.pc = "sleep" => ~LimitExpired
    /\ cli.pc = "sleep" /\ cli.should_stop => cli.ticks = cli.stop_tick
    /\ cli.pc = "loop" /\ cli.should_stop => cli.ticks <= cli.stop_tick + 1

\* the loop has run for follow_seconds = 1 with no Ctrl-C, has been left at
\* the tenth tick, and the connection is closed
C19_Witness ==
    /\ cli.cmd = "exec"
    /\ cli.left_loop
    /\ ~cli.should_stop
    /\ cli.follow_seconds = 1
    /\ cli.ticks = TicksPerSecond
    /\ cli.pc = "done"
    /\ cli.conn = "closed"

\* the loop has been left on Ctrl-C during a sleep, one tick later
C19_WitnessFlag ==
    /\ cli.cmd = "autoboot"
    /\ cli.left_loop
    /\ cli.should_stop
    /\ cli.follow_seconds = pyNone
    /\ cli.ticks = cli.stop_tick + 1
    /\ cli.conn = "closed"

SerialConns == {c \in Conns : conns[c].pc # "new" /\ ~conns[c].is_tcp}

CloseOrder == <<"stop", "join", "transport", "unlock", "unlink">>

\* s is CloseOrder with steps left out
RECURSIVE InCloseOrder(_, _)
InCloseOrder(s, k) ==
    IF s = <<>> THEN TRUE
    ELSE IF k > Len(CloseOrder) THEN FALSE
    ELSE IF Head(s) = CloseOrder[k] THEN InCloseOrder(Tail(s), k + 1)
    ELSE InCloseOrder(s, k + 1)

\* C22: close() signals the reader to stop, waits for it, closes the
\* transport, releases the lock and deletes the lock file, in this order;
\* every close of a serial connection releases the lock, also when the
\* transport fails to close, and never before the transport is closed.
C22_CloseReleasesTheLock ==
    \A c \in SerialConns :
        /\ InCloseOrder(conns[c].steps, 1)
        /\ conns[c].pc \in {"closed", "close_raised"} =>
              ~conns[c].lock_fd /\ host.holder # c
        /\ conns[c].calls = 1 /\ conns[c].pc \in {"c_join", "c_transport"} =>
              host.holder = c

\* the first close() in the cases where closing the port does not fail
C22_HoldsWhenPortCloses ==
    \A c \in SerialConns :
        /\ InCloseOrder(conns[c].steps, 1)
        /\ conns[c].calls = 1 /\ conns[c].pc = "closed" =>
              /\ ~conns[c].lock_fd /\ host.holder # c
              /\ conns[c].ser = "closed"
              /\ SubSeq(conns[c].steps, 1, 4) =
                    <<"stop", "join", "transport", "unlock">>
        /\ conns[c].calls = 1 /\ conns[c].pc \in {"c_join", "c_transport"} =>
              host.holder = c

\* the string has a ':' or is made of digits only
HasColonOrAllDigits(s) ==
    \/ \E i \in 1..Len(s) : s[i] = cColon
    \/ s # <<>> /\ \A i \in 1..Len(s) : s[i] \in 48..57

\* the endpoint by the priority argument, environment, discovery, fallback
EndpointByPriority(arg) ==
    IF arg # <<>> THEN arg
    ELSE IF host.env # <<>> THEN host.env
    ELSE IF ~host.found.raise /\ host.found.port # <<>> THEN host.found.port
    ELSE sLocalhost1337

C23_WitnessFallback ==
    /\ conns[1].arg = <<>>
    /\ host.env = <<>>
    /\ host.found.raise
    /\ conns[1].pc = "ready"
    /\ conns[1].port = sLocalhost1337
    /\ conns[1].sock = "open"

(***************************************************************************)
(* Properties of the functions.                                            *)
(***************************************************************************)
\* the length of the frame $<packet>#<checksum>
FramedLen(packet) == Len(packet) + 4

\* floor((m - 25) / 2) and floor((m - 1) / 2); no bytes when it is negative
WriteLimit(m) == IF (m - 25) \div 2 < 0 THEN 0 ELSE (m - 25) \div 2
ReadLimit(m) == (m - 1) \div 2

\* C24: for every negotiated max_packet_size m a vFile:pwrite packet
\* carries at most floor((m - 25) / 2) raw bytes, a longer buffer being cut
\* to the limit, and a vFile:pread packet asks for at most
\* floor((m - 1) / 2) bytes; the framed pwrite packet is at most m bytes.
C24_ChunkLimits ==
    fn.done =>
        /\ fn.f = "pwrite" =>
              /\ Len(fn.sent) <= WriteLimit(fn.mps)
              /\ fn.sent = SubSeq(fn.data, 1, Len(fn.sent))
              /\ fn.sent # <<>> => FramedLen(fn.packet) <= fn.mps
        /\ fn.f = "pread" => fn.asked <= ReadLimit(fn.mps)

\* the limits hold from max_packet_size 25 on and for a file descriptor
\* of up to seven hex digits
C24_HoldsFromSize25 ==
    fn.mps >= 25 /\ fn.fd < 268435456 => C24_ChunkLimits

\* C25 as stated: binary escaping round-trips, encode(decode(x)) = x for
\* any byte string x.
C25_EncodeInvertsDecode ==
    fn.done /\ fn.f = "escape" => fn.encdec = fn.data

\* C25 as amended: decode(encode(x)) = x for any byte string x.
C25_DecodeInvertsEncode ==
    fn.done /\ fn.f = "escape" => fn.decenc = fn.data

\* a string with '}' and '#' has been encoded, to a longer string, and
\* decoded back
C25_Witness ==
    /\ fn.done
    /\ fn.f = "escape"
    /\ fn.data = <<cRBrace, 97, cHash>>
    /\ Len(fn.enc) = 5
    /\ fn.decenc = fn.data


(***************************************************************************)
(* Properties of the exit status.                                          *)
(***************************************************************************)
\* exec in follow mode has received a response other than OK
ExecRefused ==
    /\ cli.cmd = "exec"
    /\ cli.follow_enabled
    /\ cli.result = "ok"
    /\ cli.response \notin {<<>>, sOK}

\* the device has reported an error or returned an unexpected response
DeviceFailed == cli.result \in ErrorKinds \/ ExecRefused

\* C26: the CLI exits with code 0 exactly when the subcommand succeeded:
\* every run in which the device reports an error or returns an unexpected
\* response, exec in follow mode receiving a response other than OK
\* included, ends with exit code 1 and a diagnostic line.
C26_ErrorsExitOne ==
    cli.pc = "exited" =>
        /\ cli.exit_code = 0 <=> cli.result = "ok" /\ ~ExecRefused
        /\ DeviceFailed => cli.exit_code = 1 /\ cli.diag

\* the same, exec in follow mode with a response other than OK left out
C26_HoldsBarExecFollow ==
    cli.pc = "exited" /\ ~ExecRefused => C26_ErrorsExitOne


(***************************************************************************)
(* Properties of the send path and of the two threads.                     *)
(***************************************************************************)
\* C27: the sender retransmits a packet only in reply to a Nak: an ACK
\* wait that ends in a timeout, or that finds a data frame at the head of
\* the queue, fails the send without writing the packet again.
C27_RetransmitsOnlyOnNak ==
    cpc = "ackwait" /\ attempt > 0 => hist.ptx.acks = 1

\* the client thread is not in _drain_input while the reader runs
ClientNeverDrains == rpc # "exited" => cpc # "drain"

\* the reader has answered no frame on the transport
ReaderNeverWrites == rpc # "exited" => hist.frame.wrote = 0

\* C28: while the reader thread is running the client thread never reads
\* from the transport, the stale-input drain of the send path included,
\* and the reader never writes to it.
C28_ReaderReadsClientWrites == ClientNeverDrains /\ ReaderNeverWrites

\* C29: the reader loop exits when the transport returns a close
\* indication: a read that returns zero bytes because the peer closed the
\* connection ends the reader without close() being called.
C29_ReaderExitsOnPeerClose ==
    \A c \in Conns :
        conns[c].eof_reads > 0 /\ ~conns[c].stop =>
            conns[c].reader = "exited"

\* C30: when the ACK wait of a send yields a Nak and attempts remain, the
\* client drains stale input before it writes the retransmission.
C30_NakDrainsBeforeRetry ==
    [][(/\ cpc = "ackwait"
        /\ rq # <<>>
        /\ Head(rq) = NAK
        /\ attempt < MaxRetries - 1)
       => cpc' \in {"ackwait", "drain"}]_vars


(***************************************************************************)
(* Properties of get and put.                                              *)
(***************************************************************************)
\* the payloads of the pread requests of the call that were answered with
\* data, one after the other
RECURSIVE PreadPayloads(_)
PreadPayloads(log) ==
    IF log = <<>> THEN <<>>
    ELSE IF Head(log).cmd = "pread" /\ ~PreadResult(Head(log).x).raise
    THEN PreadResult(Head(log).x).data \o PreadPayloads(Tail(log))
    ELSE PreadPayloads(Tail(log))

\* the last pread of the call was answered with the empty payload
LastPreadEmpty ==
    /\ Requests("pread") # <<>>
    /\ LET x == Requests("pread")[Len(Requests("pread"))].x
       IN  x.ok /\ x.resp = <<>>

\* C31: get treats a pread that returns fewer bytes than requested as a
\* short read and loops: it issues pread until size bytes have been
\* transferred or a pread returns the empty payload, which is no error,
\* and the local file then holds the pread payloads received, in order.
C31_GetLoopsOverShortReads ==
    call.op = "get" /\ ~call.exc =>
        /\ call.out = PreadPayloads(olog)
        /\ call.transferred = Len(call.out)
        /\ call.pc = "pread" =>
              call.transferred < call.file_size /\ ~LastPreadEmpty
        /\ call.pc = "close" \/ call.result = "ok" =>
              call.transferred >= call.file_size \/ LastPreadEmpty

\* a get of a two-byte file has returned after two short reads of one byte
C31_Witness ==
    /\ call.op = "get"
    /\ call.result = "ok"
    /\ call.file_size = 2
    /\ Len(Requests("pread")) = 2
    /\ call.out = remote.file
    /\ Len(call.out) = 2

\* a get has returned after a pread at the end of the file, short of the
\* size the device had reported
C31_WitnessEof ==
    /\ call.op = "get"
    /\ call.result = "ok"
    /\ LastPreadEmpty
    /\ call.transferred < call.file_size
    /\ call.out = remote.file
    /\ Len(call.out) = 1


(***************************************************************************)
(* Properties of the construction.                                         *)
(***************************************************************************)
\* C32: construction selects the endpoint, acquires the lock, spawns the
\* reader, drains stale input and negotiates with qSupported, in this
\* order; in particular the reader is spawned before stale input is
\* drained.
C32_ReaderSpawnedBeforeDrain ==
    /\ cli.drained \/ cli.reader => cli.conn # "none"
    /\ cli.pc = "drain" => cli.reader
    /\ cli.pc = "reader" => ~cli.drained
    /\ cli.packets # <<>> => cli.drained

\* the steps in the order of the code: the transport, the drain, the
\* reader thread, qSupported
C32_HoldsWithDrainFirst ==
    /\ cli.drained \/ cli.reader => cli.conn # "none"
    /\ cli.pc = "drain" => ~cli.reader /\ ~cli.drained
    /\ cli.pc = "reader" => cli.drained /\ ~cli.reader
    /\ cli.packets # <<>> => cli.drained /\ cli.packets[1] = "qSupported"
    /\ cli.frames # <<>> /\ cli.conn = "open" => cli.reader


(***************************************************************************)
(* Properties of a connection used for several operations.                 *)
(***************************************************************************)
\* C33: the payload an operation receives from _send_packet_with_response
\* is the device's reply to that operation's own packet, never the reply
\* to an earlier packet.
C33_ResponseIsReplyToOwnPacket ==
    hist.lastret # <<>> => hist.lastret = ResponseTo(cop)


\* the device has not yet received the data packet written last
PacketUnderWay == \E i \in 1..Len(dev_in) : dev_in[i].k = "data"

\* C34: every Ack or Nak that _send_packet accepts for a transmission was
\* sent by the device in reply to that transmission: none is accepted
\* before the device has received the packet.
C34_AckIsReplyToTransmission ==
    [][cpc = "ackwait" /\ hist'.tx.acks > hist.tx.acks => ~PacketUnderWay]_vars


\* C35: if the constructor fails after the transport has been opened (in
\* the exchange of qSupported), then when the failure reaches the caller
\* no reader thread of the connection is running, the transport is closed
\* and the serial device lock is released.
C35_FailedConstructorCleansUp ==
    \A c \in Conns :
        conns[c].pc = "failed" /\ conns[c].exchanged =>
            /\ conns[c].reader # "running"
            /\ conns[c].sock # "open"
            /\ conns[c].ser # "open"
            /\ host.holder # c


(***************************************************************************)
(* Properties of the reader on a stream that arrives in pieces.            *)
(***************************************************************************)
\* C36: the reader enqueues Ack or Nak only for a '+' or '-' byte that the
\* device sent outside any frame; a byte that belongs to a frame is never
\* enqueued as Ack or Nak nor taken as the start of another frame, also
\* when a read timeout or a short read interrupts the reader in the middle
\* of the frame.
C36_FrameBytesStayInFrame == ~rd.stray

\* the same while no read has timed out or come short inside a frame
C36_HoldsOnWholeFrames == ~rd.cut => ~rd.stray

\* every frame answered '+' has been passed on, to the sink or to the
\* queue
AllHandled ==
    /\ Len(rd.handled) = Len(rd.acked) - (IF rd.pc = "deliver" /\ rd.framed
                                          THEN 1 ELSE 0)
    /\ \A i \in 1..Len(rd.handled) :
          /\ rd.handled[i].p = rd.acked[i]
          /\ rd.handled[i].to \in {"sink", "queue"}

\* the payloads passed to the queue, and the texts passed to the sink, in
\* order
HandledTo(to) == SelectSeq(rd.handled, LAMBDA h : h.to = to)

\* C37: every inbound frame that the reader acknowledged with '+' is
\* afterwards delivered to the O-packet sink exactly once or enqueued as
\* Data exactly once; none is silently discarded, a payload that starts
\* with 'O' and does not decode included.
C37_AckedFrameDelivered ==
    /\ AllHandled
    /\ Len(rd.sink) = Len(HandledTo("sink"))
    /\ Len(rd.queue) >= Len(HandledTo("queue"))

\* the same for the frames whose payload is no O-packet that fails to
\* decode
C37_HoldsForDecodableFrames ==
    (\A i \in 1..Len(rd.acked) :
        IsOPacket(rd.acked[i]) => DecodeOPacket(rd.acked[i]) # <<>>)
    => C37_AckedFrameDelivered

\* C38: the payload "OK", and every payload of at most two characters, is
\* enqueued and never routed to the O-packet sink.
C38_ShortPayloadsEnqueued ==
    /\ \A i \in 1..Len(rd.handled) :
          Len(rd.handled[i].p) <= 2 => rd.handled[i].to = "queue"
    /\ \A i \in 1..Len(HandledTo("queue")) :
          \E j \in 1..Len(rd.queue) : rd.queue[j] = HandledTo("queue")[i].p
    /\ rd.pc = "deliver" /\ rd.framed /\ Len(rd.packet) <= 2 =>
          Route(rd.packet) = "queue"

\* the frames of "OK" and of "O" have been read and both payloads are in
\* the queue, with nothing in the sink
C38_Witness ==
    /\ rd.acked = <<sOK, <<cO>>>>
    /\ rd.queue = <<sOK, <<cO>>>>
    /\ rd.sink = <<>>
    /\ Len(rd.handled) = 2

(***************************************************************************)
(* Termination of the transfer loops.                                      *)
(***************************************************************************)
\* get and put are sequential code: the step they are at is taken
SpecOpsFair == InitOps /\ [][OpsNext]_vars /\ WF_vars(OpsNext)

\* the call is in the transfer loop of get or put
InTransferLoop == call.pc \in {"pread", "pwrite"}

\* the call has left the loop through vFile:close and has ended
ClosedAndEnded ==
    /\ call.pc = "idle"
    /\ call.result # "none"
    /\ Len(Requests("close")) = 1
    /\ olog[Len(olog)].cmd = "close"

\* every pread request but the last brought at least one byte of the
\* file_size bytes, and every pwrite request took at least one byte of the
\* local file
TransferRequestsBounded ==
    /\ call.op = "get" => Len(Requests("pread")) <= call.file_size
    /\ call.op = "put" => Len(Requests("pwrite")) <= Len(local_file)

\* C39: get and put send at most file_size pread requests and at most as
\* many pwrite requests as the local file has bytes, whatever byte counts
\* the device reports and whatever max_packet_size is (0, 2, 24 and 25
\* included), and a call that is in its transfer loop ends after having
\* sent vFile:close as its last request.
C39_TransfersTerminate ==
    /\ []TransferRequestsBounded
    /\ InTransferLoop ~> ClosedAndEnded

\* a put with max_packet_size 24 (write limit -1) has returned: it sent one
\* pwrite, the device reported 0 bytes written, and close was sent
C39_Witness ==
    /\ call.op = "put"
    /\ max_packet_size = 24
    /\ call.result = "ok"
    /\ Len(local_file) = MaxFile
    /\ Len(Requests("pwrite")) = 1
    /\ Requests("pwrite")[1].x = Resp(<<cF>> \o FormatHex(0))
    /\ ClosedAndEnded

\* a put with max_packet_size 29 has returned after the device reported
\* more bytes written than it was sent
C39_WitnessOverReport ==
    /\ call.op = "put"
    /\ max_packet_size = 29
    /\ call.result = "ok"
    /\ \E i \in 1..Len(olog) :
          olog[i].cmd = "pwrite" /\ olog[i].x = Resp(<<cF>> \o FormatHex(3))
    /\ ClosedAndEnded

(***************************************************************************)
(* close() called again.                                                   *)
(***************************************************************************)
\* close() has been called again on connection c and that call has ended
ClosedAgain(c) ==
    /\ conns[c].calls >= 2
    /\ conns[c].pc \in {"closed", "close_raised"}

\* C40, as stated: a call of close() after the first closes no transport,
\* releases no lock, deletes no lock file, raises nothing, and leaves the
\* socket, the port and the lock as the call before it left them.
C40_SecondCloseDoesNothing ==
    \A c \in Conns :
        /\ conns[c].calls >= 2 => conns[c].again = <<>>
        /\ ClosedAgain(c) =>
              /\ conns[c].pc = "closed"
              /\ ClosedState(c) = conns[c].left_as

\* the same after a close() that returned: the call that follows it does
\* nothing and returns
C40_HoldsAfterCloseReturned ==
    \A c \in Conns :
        conns[c].calls >= 2 /\ conns[c].left_as[2] # "open" =>
            /\ conns[c].again = <<>>
            /\ conns[c].pc # "close_raised"
            /\ conns[c].pc = "closed" => ClosedState(c) = conns[c].left_as

\* a second close() has returned on a connection whose first close()
\* returned
C40_ReturnedTwice ==
    \E c \in Conns :
        /\ ClosedAgain(c)
        /\ conns[c].left_as[2] # "open"
        /\ conns[c].steps # <<>>

====
